---- MODULE Spec2Model ----
(***************************************************************************)
(* A model of the metrics engine of music-league: the competition dataset  *)
(* held by MusicLeagueData and the cross-round metrics computed from it    *)
(* (src/src/musicleague/metrics/comparisons.py, songs.py, submitters.py).  *)
(*                                                                         *)
(* Numbers.  The code computes means, standard deviations and slopes in    *)
(* floating point.  The model computes them exactly: a rational is a pair  *)
(* <<num, den>> with den > 0, compared by cross-multiplication.  A         *)
(* standard deviation is carried as its square (the population variance),  *)
(* since the code only ever compares standard deviations with each other   *)
(* and the square root preserves order.  Round identifiers are strings in  *)
(* the code, compared lexicographically by pandas; here they are natural   *)
(* numbers compared by <.  Row fields that only carry titles (song,        *)
(* artist) are left out of the rows.                                       *)
(***************************************************************************)
EXTENDS Integers, Sequences, FiniteSets, TLC

VARIABLES rounds, competitors, submissions, votes, spotify, spotify_data,
          queried, call, result

vars == <<rounds, competitors, submissions, votes, spotify, spotify_data,
          queried, call, result>>

data == <<rounds, competitors, submissions, votes>>

\* the Spotify client of the dataset, its cache of track metadata, and the
\* number of times the client has asked the service for each item
metadata == <<spotify, spotify_data, queried>>

-----------------------------------------------------------------------------
(* Bounds of the checked datasets.                                         *)

\* rounds of a league in the trajectory and ranking datasets
MaxRounds == 3
\* largest total a submission collects in the trajectory and ranking datasets
MaxPoints == 2
\* largest window asked of best_stretch
MaxWindow == 3
\* largest top_n asked of hot_streak_detection
MaxTopN == 2
\* competitors of a league in the arc datasets
NumCompetitors == 4
\* rounds of a league in the arc datasets
ArcRounds == 3
\* largest total a submission collects in the arc datasets
ArcPoints == 2
\* largest number of points of a vote in the network datasets
NetPoints == 2
\* steps of the rank propagation that are computed
PageRankSteps == 2
\* largest number of points of a free vote on a song
SongPoints == 2
\* largest popularity the service reports for an item
MaxPopularity == 100
\* largest number of points a voter gives a song in a similarity league
SimPoints == 2
\* largest number of points of a vote in a golden-ear league
EarPoints == 2

\* round_id = None
None == 0

-----------------------------------------------------------------------------
(* Sequences and exact arithmetic.                                         *)

RECURSIVE SumSeq(_)
SumSeq(s) == IF s = <<>> THEN 0 ELSE s[1] + SumSeq(Tail(s))

RECURSIVE SumSq(_)
SumSq(s) == IF s = <<>> THEN 0 ELSE s[1] * s[1] + SumSq(Tail(s))

RECURSIVE MaxSeq(_)
MaxSeq(s) == IF Len(s) = 1 THEN s[1]
             ELSE LET m == MaxSeq(Tail(s)) IN IF s[1] >= m THEN s[1] ELSE m

RECURSIVE MinSeq(_)
MinSeq(s) == IF Len(s) = 1 THEN s[1]
             ELSE LET m == MinSeq(Tail(s)) IN IF s[1] <= m THEN s[1] ELSE m

MapPoints(s) == [i \in 1..Len(s) |-> s[i].points]

Front(s) == SubSeq(s, 1, Len(s) - 1)

RLt(a, b) == a[1] * b[2] < b[1] * a[2]
REq(a, b) == a[1] * b[2] = b[1] * a[2]
RSub(a, b) == <<a[1] * b[2] - b[1] * a[2], a[2] * b[2]>>
RZero == <<0, 1>>
RInt(n) == <<n, 1>>

\* np.mean of a non-empty list of integers
Mean(s) == <<SumSeq(s), Len(s)>>

\* np.var (ddof = 0) of a non-empty list of integers; np.std is its root
PopVar(s) == <<Len(s) * SumSq(s) - SumSeq(s) * SumSeq(s), Len(s) * Len(s)>>

-----------------------------------------------------------------------------
(* MusicLeagueData and SongMetrics.                                        *)

\* self._spotify: no client, or a client of a service that knows a
\* popularity for an item or fails to deliver the item (popularity -1)
NoClient == [client |-> FALSE]
Client(tracks) == [client |-> TRUE, tracks |-> tracks]

\* lines 124-130, 143-149: the placeholder metadata
Placeholder(uri) == [popularity |-> 0, name |-> "Unknown", uri |-> uri]

\* the metadata of an item as the service delivers it, failed or not
FetchedUnguarded(uri) ==
    IF ~spotify.client THEN Placeholder(uri)
    ELSE IF uri \notin DOMAIN spotify.tracks THEN Placeholder(uri)
    ELSE [popularity |-> spotify.tracks[uri], name |-> "track", uri |-> uri]

\* lines 122-149: the metadata stored for an item that is not in the cache
Fetched(uri) ==
    IF ~spotify.client THEN Placeholder(uri)
    ELSE IF uri \notin DOMAIN spotify.tracks THEN Placeholder(uri)
    ELSE IF spotify.tracks[uri] < 0 THEN Placeholder(uri)
    ELSE [popularity |-> spotify.tracks[uri], name |-> "track", uri |-> uri]

\* self.spotify_data after get_spotify_data(uri), starting from a cache
CacheAfter(cache, uri) ==
    IF uri \in DOMAIN cache THEN cache
    ELSE [u \in DOMAIN cache \cup {uri} |->
             IF u = uri THEN Fetched(uri) ELSE cache[u]]

\* the value get_spotify_data(uri) returns, starting from a cache
get_spotify_data(cache, uri) == CacheAfter(cache, uri)[uri]

\* line 133: the calls of self._spotify.get_track so far, per item, after
\* get_spotify_data(uri), starting from a cache
QueriedAfter(asked, cache, uri) ==
    IF uri \in DOMAIN cache \/ ~spotify.client THEN asked
    ELSE [u \in DOMAIN asked \cup {uri} |->
             IF u = uri THEN (IF u \in DOMAIN asked THEN asked[u] + 1 ELSE 1)
             ELSE asked[u]]

get_votes_for_song(spotify_uri, round_id) ==
    MapPoints(SelectSeq(votes, LAMBDA v :
        /\ v.spotify_uri = spotify_uri
        /\ (round_id = None \/ v.round_id = round_id)))

total_points(spotify_uri, round_id) ==
    SumSeq(get_votes_for_song(spotify_uri, round_id))

-----------------------------------------------------------------------------
(* SubmitterMetrics.                                                       *)

\* the submissions of a submitter, optionally of one round, in list order
SubmissionsOf(submitter_id, round_id) ==
    SelectSeq(submissions, LAMBDA s :
        /\ s.submitter_id = submitter_id
        /\ (round_id = None \/ s.round_id = round_id))

\* total_points of each submission of a list, each in its own round
SubmissionPoints(subs) ==
    [i \in 1..Len(subs) |-> total_points(subs[i].spotify_uri, subs[i].round_id)]

\* (average_points, std_dev); std_dev is carried as the variance
consistency_score(submitter_id, round_id) ==
    LET subs == SubmissionsOf(submitter_id, round_id)
        points == SubmissionPoints(subs)
    IN  IF Len(subs) = 0 THEN <<RZero, RZero>>
        ELSE <<Mean(points), PopVar(points)>>

-----------------------------------------------------------------------------
(* CrossRoundMetrics: per-round series.                                    *)

\* the points of the submitter's first submission of the round only
RoundPointsFirst(submitter_id, round_id) ==
    LET subs == SubmissionsOf(submitter_id, round_id)
    IN  IF Len(subs) = 0 THEN 0 ELSE total_points(subs[1].spotify_uri, round_id)

\* the submitter's points in one round: the sum over the round's submissions
RoundPoints(submitter_id, round_id) ==
    LET subs == SubmissionsOf(submitter_id, round_id)
    IN  SumSeq([i \in 1..Len(subs) |-> total_points(subs[i].spotify_uri, round_id)])

\* a running total that is overwritten, not added to
RunningTotalOverwritten(submitter_id, i) ==
    IF i = 0 THEN 0 ELSE RoundPoints(submitter_id, rounds[i])

RECURSIVE RunningTotal(_, _)
RunningTotal(submitter_id, i) ==
    IF i = 0 THEN 0
    ELSE RunningTotal(submitter_id, i - 1) + RoundPoints(submitter_id, rounds[i])

\* the last position of a round id in data.rounds (a dict keeps the last write)
LastIndexOf(round_id) ==
    CHOOSE i \in 1..Len(rounds) :
        /\ rounds[i] = round_id
        /\ \A j \in (i + 1)..Len(rounds) : rounds[j] # round_id

cumulative_points_by_round(submitter_id) ==
    [round_id \in {rounds[i] : i \in 1..Len(rounds)} |->
        RunningTotal(submitter_id, LastIndexOf(round_id))]

\* rows (round_index, round_id, points) of the rounds the submitter entered;
\* round_index counts from 0 as enumerate does
RECURSIVE RoundScoresFrom(_, _)
RoundScoresFrom(submitter_id, i) ==
    IF i > Len(rounds) THEN <<>>
    ELSE LET rest == RoundScoresFrom(submitter_id, i + 1)
         IN  IF Len(SubmissionsOf(submitter_id, rounds[i])) > 0
             THEN <<[round_index |-> i - 1, round_id |-> rounds[i],
                     points |-> RoundPoints(submitter_id, rounds[i])]>> \o rest
             ELSE rest

get_round_scores(submitter_id) == RoundScoresFrom(submitter_id, 1)

-----------------------------------------------------------------------------
(* CrossRoundMetrics.round_rankings.                                       *)

Unknown == "Unknown"

\* data.competitors.get(submitter_id, {'name': 'Unknown'})['name']
CompetitorName(submitter_id) ==
    IF submitter_id \in DOMAIN competitors THEN competitors[submitter_id]
    ELSE Unknown

\* a sort that puts an element before the earlier elements of equal points
RECURSIVE InsertByPointsUnstable(_, _)
InsertByPointsUnstable(x, sorted) ==
    IF sorted = <<>> THEN <<x>>
    ELSE IF sorted[1].points > x.points
         THEN <<sorted[1]>> \o InsertByPointsUnstable(x, Tail(sorted))
         ELSE <<x>> \o sorted

\* list.sort(key = points, reverse = True): Python's sort is stable, also
\* when reversed, so an element goes behind every element that is at least
\* as large and stood before it
RECURSIVE InsertByPoints(_, _)
InsertByPoints(x, sorted) ==
    IF sorted = <<>> THEN <<x>>
    ELSE IF sorted[1].points >= x.points
         THEN <<sorted[1]>> \o InsertByPoints(x, Tail(sorted))
         ELSE <<x>> \o sorted

RECURSIVE SortByPointsDesc(_)
SortByPointsDesc(s) ==
    IF s = <<>> THEN <<>>
    ELSE InsertByPoints(s[Len(s)], SortByPointsDesc(Front(s)))

\* the rows of one round, scored, sorted and ranked
RoundRows(round_id) ==
    LET round_submissions ==
            SelectSeq(submissions, LAMBDA s : s.round_id = round_id)
        round_scores ==
            [i \in 1..Len(round_submissions) |->
                [round_id |-> round_id,
                 submitter_id |-> round_submissions[i].submitter_id,
                 submitter |-> CompetitorName(round_submissions[i].submitter_id),
                 points |-> total_points(round_submissions[i].spotify_uri, round_id)]]
        sorted == SortByPointsDesc(round_scores)
    IN  [i \in 1..Len(sorted) |->
            [round_id |-> sorted[i].round_id,
             submitter_id |-> sorted[i].submitter_id,
             submitter |-> sorted[i].submitter,
             points |-> sorted[i].points,
             rank |-> i]]

RECURSIVE RankingsFrom(_)
RankingsFrom(i) ==
    IF i > Len(rounds) THEN <<>>
    ELSE RoundRows(rounds[i]) \o RankingsFrom(i + 1)

round_rankings == RankingsFrom(1)

-----------------------------------------------------------------------------
(* CrossRoundMetrics.momentum_score.                                       *)

RECURSIVE SumProd(_, _)
SumProd(x, y) == IF x = <<>> THEN 0 ELSE x[1] * y[1] + SumProd(Tail(x), Tail(y))

\* np.cov(x, y)[0, 1] for y[i] = z[i] / zden: the sum of the products of the
\* deviations, divided by n - 1 (numpy's default, ddof = 1)
NpCov(x, z, zden) ==
    LET n == Len(x)
    IN  <<n * SumProd(x, z) - SumSeq(x) * SumSeq(z), n * (n - 1) * zden>>

\* np.var(x): the sum of the squared deviations, divided by n (ddof = 0)
NpVar(x) == PopVar(x)

\* a normalisation measured from the maximum: (y.max() - y) / y_range
MomentumOfScoresFromMax(round_scores) ==
    LET x == [i \in 1..Len(round_scores) |-> round_scores[i].round_index]
        y == MapPoints(round_scores)
    IN  IF Len(round_scores) < 2 THEN RZero
        ELSE LET y_range == MaxSeq(y) - MinSeq(y)
                 y_shift == [i \in 1..Len(y) |-> MaxSeq(y) - y[i]]
             IN  IF ~(y_range > 0) THEN RZero
                 ELSE IF NpVar(x)[1] = 0 THEN RZero
                 ELSE LET c == NpCov(x, y_shift, y_range)
                          v == NpVar(x)
                      IN  <<c[1] * v[2], c[2] * v[1]>>

\* lines 224-243: the slope, from the rows (round_index, points)
MomentumOfScores(round_scores) ==
    LET x == [i \in 1..Len(round_scores) |-> round_scores[i].round_index]
        y == MapPoints(round_scores)
    IN  IF Len(round_scores) < 2 THEN RZero
        ELSE LET y_range == MaxSeq(y) - MinSeq(y)
                 \* y_norm[i] = (y[i] - y.min()) / y_range
                 y_shift == [i \in 1..Len(y) |-> y[i] - MinSeq(y)]
             IN  IF ~(y_range > 0) THEN RZero
                 ELSE IF NpVar(x)[1] = 0 THEN RZero
                 ELSE LET c == NpCov(x, y_shift, y_range)
                          v == NpVar(x)
                      IN  <<c[1] * v[2], c[2] * v[1]>>

momentum_score(submitter_id) == MomentumOfScores(get_round_scores(submitter_id))

-----------------------------------------------------------------------------
(* CrossRoundMetrics.hot_streak_detection.                                 *)

\* DataFrame.sort_values('round_id'): ascending by the round identifier;
\* rows of one round keep their order
RECURSIVE InsertByRoundId(_, _)
InsertByRoundId(x, sorted) ==
    IF sorted = <<>> THEN <<x>>
    ELSE IF sorted[1].round_id <= x.round_id
         THEN <<sorted[1]>> \o InsertByRoundId(x, Tail(sorted))
         ELSE <<x>> \o sorted

RECURSIVE SortByRoundId(_)
SortByRoundId(s) ==
    IF s = <<>> THEN <<>>
    ELSE InsertByRoundId(s[Len(s)], SortByRoundId(Front(s)))

\* the first loop: <<max_streak, temp_streak>> after the first i flags
RECURSIVE StreakScan(_, _)
StreakScan(top_finishes, i) ==
    IF i = 0 THEN <<0, 0>>
    ELSE LET prev == StreakScan(top_finishes, i - 1)
         IN  IF top_finishes[i]
             THEN <<IF prev[1] >= prev[2] + 1 THEN prev[1] ELSE prev[2] + 1,
                    prev[2] + 1>>
             ELSE <<prev[1], 0>>

\* a count of every top finish before position i, across the breaks
TrailingRunUnbroken(top_finishes, i) ==
    Cardinality({j \in 1..i : top_finishes[j]})

\* the second loop: count the flags from the end until the first False
RECURSIVE TrailingRun(_, _)
TrailingRun(top_finishes, i) ==
    IF i = 0 THEN 0
    ELSE IF top_finishes[i] THEN 1 + TrailingRun(top_finishes, i - 1)
    ELSE 0

NoStreak == [current_streak |-> 0, max_streak |-> 0, total_top_finishes |-> 0]

hot_streak_detection(submitter_id, top_n) ==
    LET rankings_df == round_rankings
        submitter_ranks ==
            SortByRoundId(SelectSeq(rankings_df,
                LAMBDA row : row.submitter_id = submitter_id))
        top_finishes ==
            [i \in 1..Len(submitter_ranks) |-> submitter_ranks[i].rank <= top_n]
    IN  IF Len(rankings_df) = 0 THEN NoStreak
        ELSE IF Len(submitter_ranks) = 0 THEN NoStreak
        ELSE [current_streak |-> TrailingRun(top_finishes, Len(top_finishes)),
              max_streak |-> StreakScan(top_finishes, Len(top_finishes))[1],
              total_top_finishes |->
                  Cardinality({i \in 1..Len(top_finishes) : top_finishes[i]})]

-----------------------------------------------------------------------------
(* CrossRoundMetrics: finishing_strength, peak_round, best_stretch.        *)

\* a split at the midpoint rounded up
finishing_strength_ceil(submitter_id) ==
    LET round_scores == get_round_scores(submitter_id)
        midpoint == (Len(round_scores) + 1) \div 2
        first_half == MapPoints(SubSeq(round_scores, 1, midpoint))
        second_half == MapPoints(SubSeq(round_scores, midpoint + 1, Len(round_scores)))
        first_avg == IF Len(first_half) > 0 THEN Mean(first_half) ELSE RZero
        second_avg == IF Len(second_half) > 0 THEN Mean(second_half) ELSE RZero
    IN  IF Len(round_scores) < 2 THEN RZero
        ELSE RSub(second_avg, first_avg)

finishing_strength(submitter_id) ==
    LET round_scores == get_round_scores(submitter_id)
        midpoint == Len(round_scores) \div 2
        first_half == MapPoints(SubSeq(round_scores, 1, midpoint))
        second_half == MapPoints(SubSeq(round_scores, midpoint + 1, Len(round_scores)))
        first_avg == IF Len(first_half) > 0 THEN Mean(first_half) ELSE RZero
        second_avg == IF Len(second_half) > 0 THEN Mean(second_half) ELSE RZero
    IN  IF Len(round_scores) < 2 THEN RZero
        ELSE RSub(second_avg, first_avg)

\* a maximum that moves on to a later round with the same total
peak_round_latest(submitter_id) ==
    LET round_scores == get_round_scores(submitter_id)
    IN  IF Len(round_scores) = 0
        THEN [round_num |-> 0, round_id |-> None, points |-> 0]
        ELSE LET m == MaxSeq(MapPoints(round_scores))
                 k == CHOOSE i \in 1..Len(round_scores) :
                          /\ round_scores[i].points = m
                          /\ \A j \in (i + 1)..Len(round_scores) :
                                 round_scores[j].points # m
             IN  [round_num |-> round_scores[k].round_index + 1,
                  round_id |-> round_scores[k].round_id,
                  points |-> round_scores[k].points]

\* max(round_scores, key = points): the first row that reaches the maximum
peak_round(submitter_id) ==
    LET round_scores == get_round_scores(submitter_id)
    IN  IF Len(round_scores) = 0
        THEN [round_num |-> 0, round_id |-> None, points |-> 0]
        ELSE LET m == MaxSeq(MapPoints(round_scores))
                 k == CHOOSE i \in 1..Len(round_scores) :
                          /\ round_scores[i].points = m
                          /\ \A j \in 1..(i - 1) : round_scores[j].points # m
             IN  [round_num |-> round_scores[k].round_index + 1,
                  round_id |-> round_scores[k].round_id,
                  points |-> round_scores[k].points]

\* a scan that also moves to a later run of the same total
RECURSIVE StretchScanLatest(_, _, _)
StretchScanLatest(points, window, i) ==
    IF i = 0 THEN <<0, 0>>
    ELSE LET prev == StretchScanLatest(points, window, i - 1)
             stretch_total == SumSeq(SubSeq(points, i, i + window - 1))
         IN  IF stretch_total >= prev[2] THEN <<i - 1, stretch_total>> ELSE prev

\* the loop over the window starts 0 .. len - window: <<best_start, best_total>>
\* after the starts 0 .. i - 1
RECURSIVE StretchScan(_, _, _)
StretchScan(points, window, i) ==
    IF i = 0 THEN <<0, 0>>
    ELSE LET prev == StretchScan(points, window, i - 1)
             stretch_total == SumSeq(SubSeq(points, i, i + window - 1))
         IN  IF stretch_total > prev[2] THEN <<i - 1, stretch_total>> ELSE prev

best_stretch(submitter_id, window) ==
    LET round_scores == get_round_scores(submitter_id)
        points == MapPoints(round_scores)
    IN  IF Len(round_scores) < window
        THEN IF Len(round_scores) > 0
             THEN [start_round |-> 1,
                   avg_points |-> <<SumSeq(points), Len(round_scores)>>,
                   total_points |-> SumSeq(points)]
             ELSE [start_round |-> 0, avg_points |-> RZero, total_points |-> 0]
        ELSE LET best == StretchScan(points, window, Len(round_scores) - window + 1)
             IN  [start_round |-> best[1] + 1,
                  avg_points |-> <<best[2], window>>,
                  total_points |-> best[2]]

-----------------------------------------------------------------------------
(* CrossRoundMetrics: player_arc_type and get_all_player_arcs.             *)

\* the keys of data.competitors in dict order (ids are loaded in ascending
\* order in the checked datasets)
RECURSIVE SortedIds(_)
SortedIds(S) ==
    IF S = {} THEN <<>>
    ELSE LET m == CHOOSE x \in S : \A y \in S : x <= y
         IN  <<m>> \o SortedIds(S \ {m})

CompetitorIds == SortedIds(DOMAIN competitors)

\* lines 523-529: the (average, deviation) pairs of the competitors whose
\* average is positive, in dict order
ActiveStats ==
    SelectSeq([i \in 1..Len(CompetitorIds) |->
                  consistency_score(CompetitorIds[i], None)],
              LAMBDA st : RLt(RZero, st[1]))

\* sum(1 for a in values if a < own)
CountBelow(values, own) == Cardinality({i \in 1..Len(values) : RLt(values[i], own)})

Headliner == "Headliner"
OneHitWonder == "One-Hit Wonder"
OpeningAct == "Opening Act"
Encore == "Encore"
CrowdFavorite == "Crowd Favorite"
WildCard == "Wild Card"

\* a classification whose first rule asks for the top half of the averages
ArcFromStatsTopHalf(avg_points, consistency, finish_strength, peak_points) ==
    LET league == ActiveStats
        all_avgs == [i \in 1..Len(league) |-> league[i][1]]
        all_consistencies == [i \in 1..Len(league) |-> league[i][2]]
        n == Len(all_avgs)
        avg_below == CountBelow(all_avgs, avg_points)
        consistency_below == CountBelow(all_consistencies, consistency)
        threshold == <<3 * avg_points[1], 10 * avg_points[2]>>
    IN  IF n = 0 THEN WildCard
        ELSE IF 2 * avg_below >= n /\ 2 * consistency_below < n THEN Headliner
        ELSE IF RLt(RZero, avg_points)
                /\ RLt(<<2 * avg_points[1], avg_points[2]>>, RInt(peak_points))
             THEN OneHitWonder
        ELSE IF RLt(finish_strength, <<-threshold[1], threshold[2]>>) THEN OpeningAct
        ELSE IF RLt(threshold, finish_strength) THEN Encore
        ELSE IF 4 * consistency_below < n THEN CrowdFavorite
        ELSE IF 4 * consistency_below >= 3 * n THEN WildCard
        ELSE CrowdFavorite

\* the classification, from the player's statistics; a percentile p / n is
\* compared with 0.75, 0.5, 0.25 by cross-multiplication, avg_points * 0.3
\* is 3 * avg_points / 10
ArcFromStats(avg_points, consistency, finish_strength, peak_points) ==
    LET league == ActiveStats
        all_avgs == [i \in 1..Len(league) |-> league[i][1]]
        all_consistencies == [i \in 1..Len(league) |-> league[i][2]]
        n == Len(all_avgs)
        avg_below == CountBelow(all_avgs, avg_points)
        consistency_below == CountBelow(all_consistencies, consistency)
        threshold == <<3 * avg_points[1], 10 * avg_points[2]>>
    IN  IF n = 0 THEN WildCard
        ELSE IF 4 * avg_below >= 3 * n /\ 2 * consistency_below < n THEN Headliner
        ELSE IF RLt(RZero, avg_points)
                /\ RLt(<<2 * avg_points[1], avg_points[2]>>, RInt(peak_points))
             THEN OneHitWonder
        ELSE IF RLt(finish_strength, <<-threshold[1], threshold[2]>>) THEN OpeningAct
        ELSE IF RLt(threshold, finish_strength) THEN Encore
        ELSE IF 4 * consistency_below < n THEN CrowdFavorite
        ELSE IF 4 * consistency_below >= 3 * n THEN WildCard
        ELSE CrowdFavorite

\* player_arc_type(data, submitter_id) with all_stats = None
player_arc_type(submitter_id) ==
    LET stats == consistency_score(submitter_id, None)
    IN  ArcFromStats(stats[1], stats[2], finishing_strength(submitter_id),
                     peak_round(submitter_id).points)

\* round(x, 1) as a number of tenths: the nearest tenth, an exact tie (which
\* a float holds exactly only at multiples of 1/4, the ties that occur with
\* fewer than 20 data points) to the even tenth
Round1(r) ==
    LET neg == r[1] < 0
        num == 10 * (IF neg THEN -r[1] ELSE r[1])
        q == num \div r[2]
        rem2 == 2 * (num % r[2])
        t == IF rem2 > r[2] THEN q + 1
             ELSE IF rem2 < r[2] THEN q
             ELSE IF q % 2 = 0 THEN q ELSE q + 1
    IN  IF neg THEN -t ELSE t

\* DataFrame.sort_values('avg_points', ascending = False); equal keys keep
\* their order
RECURSIVE InsertByAvg(_, _)
InsertByAvg(x, sorted) ==
    IF sorted = <<>> THEN <<x>>
    ELSE IF sorted[1].avg_points >= x.avg_points
         THEN <<sorted[1]>> \o InsertByAvg(x, Tail(sorted))
         ELSE <<x>> \o sorted

RECURSIVE SortByAvgDesc(_)
SortByAvgDesc(s) ==
    IF s = <<>> THEN <<>>
    ELSE InsertByAvg(s[Len(s)], SortByAvgDesc(Front(s)))

\* the row of one competitor; the rounded std_dev column is left out
ArcRow(submitter_id) ==
    LET stats == consistency_score(submitter_id, None)
        finish_strength == finishing_strength(submitter_id)
        peak_info == peak_round(submitter_id)
        stretch_info == best_stretch(submitter_id, 3)
    IN  [submitter_id |-> submitter_id,
         submitter |-> competitors[submitter_id],
         arc_type |-> ArcFromStats(stats[1], stats[2], finish_strength,
                                   peak_info.points),
         avg_points |-> Round1(stats[1]),
         finishing_strength |-> Round1(finish_strength),
         peak_round |-> peak_info.round_num,
         peak_points |-> peak_info.points,
         best_stretch_start |-> stretch_info.start_round,
         best_stretch_avg |-> Round1(stretch_info.avg_points)]

get_all_player_arcs ==
    LET listed == SelectSeq(CompetitorIds,
                      LAMBDA sid : ~REq(consistency_score(sid, None)[1], RZero))
    IN  SortByAvgDesc([i \in 1..Len(listed) |-> ArcRow(listed[i])])

-----------------------------------------------------------------------------
(* SongMetrics.  A float that is a quotient of integers is carried as the  *)
(* pair <<numerator, denominator>>; controversy_score, a standard          *)
(* deviation, is carried as its square, the variance.                      *)

\* np.std with ddof = 1, the sample deviation
controversy_score_sample(spotify_uri, round_id) ==
    LET song_votes == get_votes_for_song(spotify_uri, round_id)
        n == Len(song_votes)
    IN  IF n < 2 THEN RZero
        ELSE <<n * SumSq(song_votes) - SumSeq(song_votes) * SumSeq(song_votes),
               n * (n - 1)>>

\* float(np.std(votes)), squared; 0.0 for fewer than two votes
controversy_score(spotify_uri, round_id) ==
    LET song_votes == get_votes_for_song(spotify_uri, round_id)
    IN  IF Len(song_votes) < 2 THEN RZero ELSE PopVar(song_votes)

\* the dict of point value -> number of votes with that value
vote_distribution(spotify_uri, round_id) ==
    LET song_votes == get_votes_for_song(spotify_uri, round_id)
    IN  [p \in {song_votes[i] : i \in 1..Len(song_votes)} |->
            Cardinality({i \in 1..Len(song_votes) : song_votes[i] = p})]

\* total_votes / popularity, the quotient without the shift by one
QuotientUnshifted(total_votes, popularity) == <<total_votes, popularity>>

\* total_votes / (popularity + 1)
Quotient(total_votes, popularity) == <<total_votes, popularity + 1>>

\* the value obscurity_score returns, starting from a cache; the call
\* leaves the cache CacheAfter(cache, spotify_uri)
obscurity_score(cache, spotify_uri, round_id) ==
    LET total_votes == total_points(spotify_uri, round_id)
        popularity == get_spotify_data(cache, spotify_uri).popularity
    IN  Quotient(total_votes, popularity)

\* ''
NoId == 0

\* the submissions get_all_song_metrics walks: `if round_id:` filters
MetricSubmissions(round_id) ==
    IF round_id # None
    THEN SelectSeq(submissions, LAMBDA s : s.round_id = round_id)
    ELSE submissions

\* the cache after the loop has handled the first k submissions
RECURSIVE MetricsCache(_, _, _)
MetricsCache(cache, subs, k) ==
    IF k = 0 THEN cache
    ELSE CacheAfter(MetricsCache(cache, subs, k - 1), subs[k].spotify_uri)

\* the calls of the service after the loop has handled k submissions
RECURSIVE MetricsQueried(_, _, _, _)
MetricsQueried(asked, cache, subs, k) ==
    IF k = 0 THEN asked
    ELSE QueriedAfter(MetricsQueried(asked, cache, subs, k - 1),
                      MetricsCache(cache, subs, k - 1), subs[k].spotify_uri)

\* the record appended for one submission, starting from a cache
SongRow(cache, submission) ==
    LET uri == submission.spotify_uri
        rid == submission.round_id
        track == get_spotify_data(cache, uri)
        known == submission.submitter_id \in DOMAIN competitors
    IN  [spotify_uri |-> uri,
         round_id |-> rid,
         song_name |-> track.name,
         submitter |-> CompetitorName(submission.submitter_id),
         submitter_id |-> IF known THEN submission.submitter_id ELSE NoId,
         spotify_popularity |-> track.popularity,
         total_points |-> total_points(uri, rid),
         controversy_score |-> controversy_score(uri, rid),
         obscurity_score |-> obscurity_score(CacheAfter(cache, uri), uri, rid),
         vote_distribution |-> vote_distribution(uri, rid)]

\* the list `metrics`, starting from a cache
SongRows(cache, subs) ==
    [k \in 1..Len(subs) |-> SongRow(MetricsCache(cache, subs, k - 1), subs[k])]

Without(s, i) == SubSeq(s, 1, i - 1) \o SubSeq(s, i + 1, Len(s))

\* df.sort_values('total_points', ascending=False): the default kind is
\* quicksort, which is not a stable sort, so rows of equal total_points
\* may come out in any order: the set of the frames it may produce
RECURSIVE SortValuesByTotalDesc(_)
SortValuesByTotalDesc(rows) ==
    IF rows = <<>> THEN {<<>>}
    ELSE LET top == MaxSeq([i \in 1..Len(rows) |-> rows[i].total_points])
             first == {i \in 1..Len(rows) : rows[i].total_points = top}
         IN  UNION {{<<rows[i]>> \o rest :
                        rest \in SortValuesByTotalDesc(Without(rows, i))} :
                    i \in first}

\* the frames get_all_song_metrics may return, starting from a cache; the
\* call leaves the cache all_song_metrics_cache
get_all_song_metrics(cache, round_id) ==
    LET rows == SongRows(cache, MetricSubmissions(round_id))
    IN  IF Len(rows) > 0 THEN SortValuesByTotalDesc(rows) ELSE {rows}

all_song_metrics_cache(cache, round_id) ==
    LET subs == MetricSubmissions(round_id)
    IN  MetricsCache(cache, subs, Len(subs))

\* the submissions round_rankings walks: those of each round, round by round
RECURSIVE RankedSubmissionsFrom(_)
RankedSubmissionsFrom(i) ==
    IF i > Len(rounds) THEN <<>>
    ELSE SelectSeq(submissions, LAMBDA s : s.round_id = rounds[i])
         \o RankedSubmissionsFrom(i + 1)

\* comparisons.py line 170: round_rankings looks up the metadata of every
\* submission it ranks; the cache it leaves, starting from a cache
round_rankings_cache(cache) ==
    LET subs == RankedSubmissionsFrom(1)
    IN  MetricsCache(cache, subs, Len(subs))

-----------------------------------------------------------------------------
(* NetworkMetrics: the voting graph and voting_reciprocity.  An operation  *)
(* of this and the following sections either returns a value or raises an  *)
(* exception; its outcome is Return(value) or Raise(exception).  A graph   *)
(* is a record: nodes lists the node keys in insertion order, weight[u][v] *)
(* is the weight of the edge u -> v, 0 when there is no such edge (the     *)
(* code adds an edge only with a positive weight).                         *)

Return(value) == [returned |-> value]
Raise(exception) == [raised |-> exception]
IsRaise(outcome) == "raised" \in DOMAIN outcome

KeyError == "KeyError"

\* MusicLeagueData.get_submitter_for_song: the first matching submission
get_submitter_for_song(spotify_uri, round_id) ==
    LET matching == SelectSeq(submissions, LAMBDA sub :
                        sub.spotify_uri = spotify_uri /\ sub.round_id = round_id)
    IN  IF Len(matching) = 0 THEN None ELSE matching[1].submitter_id

\* lines 40-41: G.add_node(comp_data['name'], id=comp_id) for the first k
\* competitors; adding a key that is already a node adds no node
RECURSIVE NodesFrom(_)
NodesFrom(k) ==
    IF k = 0 THEN <<>>
    ELSE LET before == NodesFrom(k - 1)
             name == competitors[CompetitorIds[k]]
         IN  IF \E i \in 1..Len(before) : before[i] = name THEN before
             ELSE Append(before, name)

\* lines 55-58: add the edge or increment its weight
AddEdge(G, voter_name, submitter_name, points) ==
    [G EXCEPT !.weight[voter_name][submitter_name] = @ + points]

\* lines 45-58: one iteration of the loop over data.votes
AddVote(G, vote, round_id) ==
    IF IsRaise(G) THEN G
    ELSE IF ~(round_id = None \/ vote.round_id = round_id) THEN G
    ELSE IF ~(vote.points > 0) THEN G
    ELSE LET submitter_id ==
                 get_submitter_for_song(vote.spotify_uri, vote.round_id)
         IN  IF submitter_id = None \/ submitter_id = vote.voter_id THEN G
             ELSE IF vote.voter_id \notin DOMAIN competitors THEN Raise(KeyError)
             ELSE IF submitter_id \notin DOMAIN competitors THEN Raise(KeyError)
             ELSE Return(AddEdge(G.returned, competitors[vote.voter_id],
                                 competitors[submitter_id], vote.points))

RECURSIVE GraphFrom(_, _)
GraphFrom(round_id, k) ==
    IF k = 0
    THEN LET nodes == NodesFrom(Len(CompetitorIds))
             keys == {nodes[i] : i \in 1..Len(nodes)}
         IN  Return([nodes |-> nodes,
                     weight |-> [u \in keys |-> [v \in keys |-> 0]]])
    ELSE AddVote(GraphFrom(round_id, k - 1), votes[k], round_id)

build_voting_graph(round_id) == GraphFrom(round_id, Len(votes))

\* a table that lists a pair only when points went both ways
ReciprocityRowMutual(G, node_a, node_b) ==
    LET points_a_to_b == G.weight[node_a][node_b]
        points_b_to_a == G.weight[node_b][node_a]
    IN  IF node_a # node_b /\ points_a_to_b > 0 /\ points_b_to_a > 0
        THEN << [voter |-> node_a, submitter |-> node_b,
                 points_given |-> points_a_to_b,
                 points_received |-> points_b_to_a,
                 reciprocity_score |->
                     IF points_a_to_b <= points_b_to_a
                     THEN <<points_a_to_b, points_b_to_a>>
                     ELSE <<points_b_to_a, points_a_to_b>>] >>
        ELSE <<>>

\* a table that lists a pair only from the side that gave points
ReciprocityRowGiven(G, node_a, node_b) ==
    LET points_a_to_b == G.weight[node_a][node_b]
        points_b_to_a == G.weight[node_b][node_a]
    IN  IF node_a # node_b /\ points_a_to_b > 0
        THEN << [voter |-> node_a, submitter |-> node_b,
                 points_given |-> points_a_to_b,
                 points_received |-> points_b_to_a,
                 reciprocity_score |->
                     IF points_a_to_b <= points_b_to_a
                     THEN <<points_a_to_b, points_b_to_a>>
                     ELSE <<points_b_to_a, points_a_to_b>>] >>
        ELSE <<>>

\* lines 88-110: the row of the pair (node_a, node_b), if it has one
ReciprocityRow(G, node_a, node_b) ==
    LET points_a_to_b == G.weight[node_a][node_b]
        points_b_to_a == G.weight[node_b][node_a]
        max_points == IF points_a_to_b >= points_b_to_a
                      THEN points_a_to_b ELSE points_b_to_a
        min_points == IF points_a_to_b <= points_b_to_a
                      THEN points_a_to_b ELSE points_b_to_a
    IN  IF node_a # node_b /\ (points_a_to_b > 0 \/ points_b_to_a > 0)
        THEN << [voter |-> node_a, submitter |-> node_b,
                 points_given |-> points_a_to_b,
                 points_received |-> points_b_to_a,
                 reciprocity_score |->
                     IF max_points > 0 THEN <<min_points, max_points>>
                     ELSE RZero] >>
        ELSE <<>>

\* lines 85-110: the rows of the pairs i-th node with the first j nodes, after
\* those of the nodes before the i-th
RECURSIVE ReciprocityRows(_, _, _)
ReciprocityRows(G, i, j) ==
    IF i = 0 THEN <<>>
    ELSE IF j = 0 THEN ReciprocityRows(G, i - 1, Len(G.nodes))
    ELSE ReciprocityRows(G, i, j - 1)
         \o ReciprocityRow(G, G.nodes[i], G.nodes[j])

voting_reciprocity(round_id) ==
    LET G == build_voting_graph(round_id)
    IN  IF IsRaise(G) THEN G
        ELSE Return(ReciprocityRows(G.returned, Len(G.returned.nodes),
                                    Len(G.returned.nodes)))

-----------------------------------------------------------------------------
(* NetworkMetrics.influence_score.  nx.pagerank(G, weight='weight') is the *)
(* power iteration of networkx with its defaults: damping 0.85, tolerance  *)
(* 1e-6 on the l1 distance of two successive iterates (times the number of *)
(* nodes), at most 100 iterations, uniform start, uniform personalization  *)
(* and the rank of the nodes without out-edges spread uniformly.  The      *)
(* iterates are computed exactly, as integer numerators over one           *)
(* denominator; since the numbers grow with every step, the iteration is   *)
(* cut after PageRankSteps steps and the iterate reached is returned (the  *)
(* code returns a later iterate of the same sequence).                     *)

AlphaNum == 17
AlphaDen == 20
TolDen == 1000000

NetworkXError == "NetworkXError"

NodeKeys(G) == {G.nodes[i] : i \in 1..Len(G.nodes)}

\* the total weight of the out-edges of a node
OutWeight(G, u) == SumSeq([j \in 1..Len(G.nodes) |-> G.weight[u][G.nodes[j]]])

\* a common multiple of the number of nodes and of the out-weights
RECURSIVE ScaleFrom(_, _)
ScaleFrom(G, k) ==
    IF k = 0 THEN Len(G.nodes)
    ELSE LET out == OutWeight(G, G.nodes[k])
         IN  (IF out = 0 THEN 1 ELSE out) * ScaleFrom(G, k - 1)

Abs(n) == IF n < 0 THEN -n ELSE n

\* an iteration that drops the rank of the nodes without out-edges
PageRankStepLeaky(G, x) ==
    LET N == Len(G.nodes)
        M == ScaleFrom(G, N)
        inflow(v) == SumSeq([j \in 1..N |->
            LET u == G.nodes[j]
                out == OutWeight(G, u)
            IN  IF out = 0 THEN 0
                ELSE x.num[u] * G.weight[u][v] * (M \div out)])
    IN  [num |-> [v \in NodeKeys(G) |->
                    AlphaNum * inflow(v)
                    + (AlphaDen - AlphaNum) * x.den * (M \div N)],
         den |-> AlphaDen * M * x.den]

\* x = alpha * (x @ A + sum(x[is_dangling]) * dangling_weights) + (1 - alpha) * p
PageRankStep(G, x) ==
    LET N == Len(G.nodes)
        M == ScaleFrom(G, N)
        dangling == SumSeq([j \in 1..N |->
            IF OutWeight(G, G.nodes[j]) = 0 THEN x.num[G.nodes[j]] ELSE 0])
        inflow(v) == SumSeq([j \in 1..N |->
            LET u == G.nodes[j]
                out == OutWeight(G, u)
            IN  IF out = 0 THEN 0
                ELSE x.num[u] * G.weight[u][v] * (M \div out)])
    IN  [num |-> [v \in NodeKeys(G) |->
                    AlphaNum * (inflow(v) + dangling * (M \div N))
                    + (AlphaDen - AlphaNum) * x.den * (M \div N)],
         den |-> AlphaDen * M * x.den]

\* err = np.absolute(x - xlast).sum(); err < N * tol
Converged(G, xlast, x) ==
    LET N == Len(G.nodes)
        factor == x.den \div xlast.den
        err == SumSeq([j \in 1..N |->
                   Abs(x.num[G.nodes[j]] - factor * xlast.num[G.nodes[j]])])
    IN  err <= (N * x.den - 1) \div TolDen

RECURSIVE PowerIteration(_, _, _)
PowerIteration(G, xlast, k) ==
    LET x == PageRankStep(G, xlast)
    IN  IF Converged(G, xlast, x) \/ k + 1 >= PageRankSteps THEN x
        ELSE PowerIteration(G, x, k + 1)

\* nx.pagerank for a graph with at least one node
pagerank(G) ==
    LET N == Len(G.nodes)
        x == PowerIteration(G, [num |-> [u \in NodeKeys(G) |-> 1], den |-> N], 0)
    IN  Return([u \in NodeKeys(G) |-> <<x.num[u], x.den>>])

influence_score(round_id) ==
    LET G == build_voting_graph(round_id)
    IN  IF IsRaise(G) THEN G
        ELSE IF Len(G.returned.nodes) = 0 THEN Return(<<>>)
        ELSE LET scores == pagerank(G.returned)
             IN  IF IsRaise(scores)
                 THEN IF scores.raised = NetworkXError
                      THEN Return([u \in NodeKeys(G.returned) |->
                                      <<1, Len(G.returned.nodes)>>])
                      ELSE scores
                 ELSE scores

-----------------------------------------------------------------------------
(* VoterMetrics.voter_similarity_matrix.  scipy.stats.spearmanr is the     *)
(* Pearson correlation of the average ranks of its two arguments; it is    *)
(* nan for fewer than two observations and for a constant argument.  A     *)
(* correlation is carried as its sign and its square, a quotient of        *)
(* integers; ranks are carried doubled, which does not change it.          *)

IndexError == "IndexError"

NaN == [nan |-> TRUE]
Corr(sign, square) == [sign |-> sign, square |-> square]
CorrOne == Corr(1, <<1, 1>>)
CorrZero == Corr(0, <<0, 1>>)

\* the songs that have a vote under the filter, as sorted (uri, round) pairs
RECURSIVE SortedSongs(_)
SortedSongs(S) ==
    IF S = {} THEN <<>>
    ELSE LET m == CHOOSE x \in S : \A y \in S :
                      x[1] < y[1] \/ (x[1] = y[1] /\ x[2] <= y[2])
         IN  <<m>> \o SortedSongs(S \ {m})

SimilaritySongs(round_id) ==
    SortedSongs({<<votes[k].spotify_uri, votes[k].round_id>> :
                    k \in {k \in 1..Len(votes) :
                              round_id = None \/ votes[k].round_id = round_id}})

\* lines 216-223: the points of the first vote of a voter on a song, else 0
VoteVal(voter_id, song) ==
    LET found == SelectSeq(votes, LAMBDA v :
                     /\ v.voter_id = voter_id
                     /\ v.spotify_uri = song[1]
                     /\ v.round_id = song[2])
    IN  IF found = <<>> THEN 0 ELSE found[1].points

\* twice the average rank of every element
Ranks(x) ==
    [i \in 1..Len(x) |->
        2 * Cardinality({j \in 1..Len(x) : x[j] < x[i]})
        + Cardinality({j \in 1..Len(x) : x[j] = x[i]}) + 1]

Sign(n) == IF n > 0 THEN 1 ELSE IF n < 0 THEN -1 ELSE 0

\* the statistic of stats.spearmanr(a, b)
spearmanr(a, b) ==
    LET n == Len(a)
        ra == Ranks(a)
        rb == Ranks(b)
        cov == n * SumProd(ra, rb) - SumSeq(ra) * SumSeq(rb)
        va == n * SumSq(ra) - SumSeq(ra) * SumSeq(ra)
        vb == n * SumSq(rb) - SumSeq(rb) * SumSeq(rb)
    IN  IF n <= 1 THEN NaN
        ELSE IF (\A i \in 1..n : a[i] = a[1]) \/ (\A i \in 1..n : b[i] = b[1])
        THEN NaN
        ELSE Corr(Sign(cov), <<cov * cov, va * vb>>)

voter_similarity_matrix(round_id) ==
    LET voter_ids == CompetitorIds
        n == Len(voter_ids)
        songs == SimilaritySongs(round_id)
        \* np.array(vote_matrix).T: one row per voter, if there is a song
        vote_matrix_arr ==
            [i \in 1..n |->
                [k \in 1..Len(songs) |-> VoteVal(voter_ids[i], songs[k])]]
        cell(i, j) ==
            IF i = j THEN CorrOne
            ELSE LET corr == spearmanr(vote_matrix_arr[i], vote_matrix_arr[j])
                 IN  IF corr # NaN THEN corr ELSE CorrZero
    IN  \* without a song the array has no rows and vote_matrix_arr[i] fails
        IF songs = <<>> /\ n >= 2 THEN Raise(IndexError)
        ELSE Return([index |-> [i \in 1..n |-> competitors[voter_ids[i]]],
                     values |-> [i \in 1..n |-> [j \in 1..n |-> cell(i, j)]]])

-----------------------------------------------------------------------------
(* VoterMetrics.golden_ear_score.                                          *)

\* lines 153-158: the dict voter_votes as the sequence of its items, in the
\* order the keys were first set, each with the value set last
VoterVotes(voter_id, round_id) ==
    LET own == SelectSeq(votes, LAMBDA v :
                   /\ v.voter_id = voter_id /\ v.points > 0
                   /\ (round_id = None \/ v.round_id = round_id))
        key(k) == <<own[k].spotify_uri, own[k].round_id>>
        firsts == SelectSeq([k \in 1..Len(own) |-> k],
                            LAMBDA k : \A j \in 1..(k - 1) : key(j) # key(k))
        last(k) == CHOOSE j \in 1..Len(own) :
                       /\ key(j) = key(k)
                       /\ \A i \in (j + 1)..Len(own) : key(i) # key(k)
    IN  [i \in 1..Len(firsts) |->
            [uri |-> own[firsts[i]].spotify_uri, rid |-> own[firsts[i]].round_id,
             voter_score |-> own[last(firsts[i])].points]]

\* lines 168-173: the points of the other voters on an item in a round
OtherVotes(voter_id, uri, rid) ==
    MapPoints(SelectSeq(votes, LAMBDA v :
        v.spotify_uri = uri /\ v.round_id = rid /\ v.voter_id # voter_id))

\* the score over every item of the voter, with or without another voter
golden_ear_score_unfiltered(voter_id, round_id) ==
    LET voter_votes == VoterVotes(voter_id, round_id)
        voter_scores == [i \in 1..Len(voter_votes) |-> voter_votes[i].voter_score]
        final_scores_list ==
            [i \in 1..Len(voter_votes) |->
                SumSeq(OtherVotes(voter_id, voter_votes[i].uri, voter_votes[i].rid))]
        correlation == spearmanr(voter_scores, final_scores_list)
    IN  IF Len(voter_votes) < 3 THEN CorrZero
        ELSE IF correlation # NaN THEN correlation ELSE CorrZero

golden_ear_score(voter_id, round_id) ==
    LET voter_votes == VoterVotes(voter_id, round_id)
        paired == SelectSeq(voter_votes, LAMBDA item :
                      Len(OtherVotes(voter_id, item.uri, item.rid)) > 0)
        voter_scores == [i \in 1..Len(paired) |-> paired[i].voter_score]
        final_scores_list ==
            [i \in 1..Len(paired) |->
                SumSeq(OtherVotes(voter_id, paired[i].uri, paired[i].rid))]
        correlation == spearmanr(voter_scores, final_scores_list)
    IN  IF Len(voter_votes) < 3 THEN CorrZero
        ELSE IF Len(voter_scores) < 3 THEN CorrZero
        ELSE IF correlation # NaN THEN correlation ELSE CorrZero

-----------------------------------------------------------------------------
(* VoterMetrics.loyalty_index.                                             *)

\* submitter_points[submitter_name].append(points) on a defaultdict(list)
AppendTo(dict, key, value) ==
    [k \in DOMAIN dict \cup {key} |->
        IF k \in DOMAIN dict
        THEN IF k = key THEN Append(dict[k], value) ELSE dict[k]
        ELSE <<value>>]

\* lines 261-269: one iteration of the loop over data.votes
LoyaltyVote(dict, vote, voter_id, round_id) ==
    IF IsRaise(dict) THEN dict
    ELSE IF ~(vote.voter_id = voter_id /\ vote.points > 0) THEN dict
    ELSE IF ~(round_id = None \/ vote.round_id = round_id) THEN dict
    ELSE LET submitter_id ==
                 get_submitter_for_song(vote.spotify_uri, vote.round_id)
         IN  IF submitter_id = None \/ submitter_id = voter_id THEN dict
             ELSE IF submitter_id \notin DOMAIN competitors THEN Raise(KeyError)
             ELSE Return(AppendTo(dict.returned, competitors[submitter_id],
                                  vote.points))

RECURSIVE LoyaltyFrom(_, _, _)
LoyaltyFrom(voter_id, round_id, k) ==
    IF k = 0 THEN Return(<<>>)
    ELSE LoyaltyVote(LoyaltyFrom(voter_id, round_id, k - 1), votes[k],
                     voter_id, round_id)

loyalty_index(voter_id, round_id) ==
    LET submitter_points == LoyaltyFrom(voter_id, round_id, Len(votes))
    IN  IF IsRaise(submitter_points) THEN submitter_points
        ELSE Return([submitter \in DOMAIN submitter_points.returned |->
                        Mean(submitter_points.returned[submitter])])

-----------------------------------------------------------------------------
(* SubmitterMetrics.biggest_fan_and_nemesis.  The dict voter_points is the *)
(* sequence of its items, [name, points], in the order the keys were set.  *)

EmptyDict == <<>>

\* lines 161-167: the votes the two loops meet, in the order they meet them
RECURSIVE FanVotesFrom(_, _, _)
FanVotesFrom(subs, submitter_id, i) ==
    IF i > Len(subs) THEN <<>>
    ELSE SelectSeq(votes, LAMBDA vote :
             /\ vote.spotify_uri = subs[i].spotify_uri
             /\ vote.round_id = subs[i].round_id
             /\ vote.voter_id # submitter_id)
         \o FanVotesFrom(subs, submitter_id, i + 1)

\* lines 166-167: voter_points[voter_name].append(points)
AppendPoints(voter_points, vote) ==
    LET voter_name == competitors[vote.voter_id]
    IN  IF \E i \in 1..Len(voter_points) : voter_points[i].name = voter_name
        THEN [i \in 1..Len(voter_points) |->
                 IF voter_points[i].name = voter_name
                 THEN [voter_points[i] EXCEPT !.points = Append(@, vote.points)]
                 ELSE voter_points[i]]
        ELSE Append(voter_points,
                    [name |-> voter_name, points |-> <<vote.points>>])

RECURSIVE VoterPointsFrom(_, _)
VoterPointsFrom(fan_votes, k) ==
    IF k = 0 THEN Return(<<>>)
    ELSE LET before == VoterPointsFrom(fan_votes, k - 1)
         IN  IF IsRaise(before) THEN before
             ELSE IF fan_votes[k].voter_id \notin DOMAIN competitors
             THEN Raise(KeyError)
             ELSE Return(AppendPoints(before.returned, fan_votes[k]))

\* sorted(..., key = avg_points): stable and ascending, so an element goes
\* behind every element that is at most as large
RECURSIVE InsertByAvgAsc(_, _)
InsertByAvgAsc(x, sorted) ==
    IF sorted = <<>> THEN <<x>>
    ELSE IF RLt(x.avg_points, sorted[1].avg_points)
         THEN <<x>> \o sorted
         ELSE <<sorted[1]>> \o InsertByAvgAsc(x, Tail(sorted))

RECURSIVE SortByAvgAsc(_)
SortByAvgAsc(s) ==
    IF s = <<>> THEN <<>>
    ELSE InsertByAvgAsc(s[Len(s)], SortByAvgAsc(Front(s)))

biggest_fan_and_nemesis(submitter_id, round_id) ==
    LET subs == SelectSeq(submissions, LAMBDA s :
                    /\ s.submitter_id = submitter_id
                    /\ (round_id = None \/ s.round_id = round_id))
        fan_votes == FanVotesFrom(subs, submitter_id, 1)
        voter_points == VoterPointsFrom(fan_votes, Len(fan_votes))
        voter_averages ==
            [i \in 1..Len(voter_points.returned) |->
                [name |-> voter_points.returned[i].name,
                 avg_points |-> Mean(voter_points.returned[i].points),
                 total_points |-> SumSeq(voter_points.returned[i].points),
                 num_votes |-> Len(voter_points.returned[i].points)]]
        sorted_voters == SortByAvgAsc(voter_averages)
    IN  IF Len(subs) = 0 THEN Return(<<EmptyDict, EmptyDict>>)
        ELSE IF IsRaise(voter_points) THEN voter_points
        ELSE IF Len(voter_points.returned) = 0
        THEN Return(<<EmptyDict, EmptyDict>>)
        ELSE Return(<<sorted_voters[Len(sorted_voters)], sorted_voters[1]>>)

-----------------------------------------------------------------------------
(* The datasets MusicLeagueData._load_data builds.  A dataset is laid out  *)
(* from a table: table[c][i] is the list of totals that the submissions of *)
(* competitor c in the i-th round collect.  Every competitor resubmits the *)
(* same items in every round (the k-th submission of competitor c is item  *)
(* 10 c + k), so an item's votes of different rounds are told apart by the *)
(* round only; a total p arrives as two votes, p - p \div 2 points from    *)
(* the next competitor and p \div 2 (possibly 0: abstained) from the       *)
(* previous one.                                                           *)

NameOf(c) == "player" \o ToString(c)

Uri(c, k) == 10 * c + k

NextVoter(c, n) == (c % n) + 1
PrevVoter(c, n) == ((c + n - 2) % n) + 1

\* the rows of submissions.csv for one competitor in one round
CellSubmissions(round_id, c, cell) ==
    [k \in 1..Len(cell) |->
        [round_id |-> round_id, submitter_id |-> c, spotify_uri |-> Uri(c, k)]]

\* the rows of votes.csv for one competitor's submissions in one round
RECURSIVE CellVotes(_, _, _, _, _)
CellVotes(round_id, c, cell, n, k) ==
    IF k > Len(cell) THEN <<>>
    ELSE << [round_id |-> round_id, voter_id |-> NextVoter(c, n),
             spotify_uri |-> Uri(c, k), points |-> cell[k] - (cell[k] \div 2)],
            [round_id |-> round_id, voter_id |-> PrevVoter(c, n),
             spotify_uri |-> Uri(c, k), points |-> cell[k] \div 2] >>
         \o CellVotes(round_id, c, cell, n, k + 1)

\* the competitors of one round in file order: ascending, or descending
FileOrder(n, rev, j) == IF rev THEN n + 1 - j ELSE j

RECURSIVE RoundSubmissions(_, _, _, _, _)
RoundSubmissions(order, table, rev, i, j) ==
    LET n == Len(table)
        c == FileOrder(n, rev, j)
    IN  IF j > n THEN <<>>
        ELSE CellSubmissions(order[i], c, table[c][i])
             \o RoundSubmissions(order, table, rev, i, j + 1)

RECURSIVE RoundVotes(_, _, _, _, _)
RoundVotes(order, table, rev, i, j) ==
    LET n == Len(table)
        c == FileOrder(n, rev, j)
    IN  IF j > n THEN <<>>
        ELSE CellVotes(order[i], c, table[c][i], n, 1)
             \o RoundVotes(order, table, rev, i, j + 1)

RECURSIVE TableSubmissions(_, _, _, _)
TableSubmissions(order, table, rev, i) ==
    IF i > Len(order) THEN <<>>
    ELSE RoundSubmissions(order, table, rev, i, 1)
         \o TableSubmissions(order, table, rev, i + 1)

RECURSIVE TableVotes(_, _, _, _)
TableVotes(order, table, rev, i) ==
    IF i > Len(order) THEN <<>>
    ELSE RoundVotes(order, table, rev, i, 1) \o TableVotes(order, table, rev, i + 1)

\* the state after construction from a table: nothing has been called yet
Loaded(order, table, rev) ==
    /\ rounds = order
    /\ competitors = [c \in 1..Len(table) |-> NameOf(c)]
    /\ submissions = TableSubmissions(order, table, rev, 1)
    /\ votes = TableVotes(order, table, rev, 1)
    /\ spotify = NoClient
    /\ spotify_data = <<>>
    /\ queried = <<>>
    /\ call = [op |-> "init"]
    /\ result = None

-----------------------------------------------------------------------------
(* The operations.  Each is a read-only query: it leaves the dataset as it *)
(* is and returns a value, recorded in result with the call that made it.  *)

Callers == DOMAIN competitors

CallCumulativePoints(s) ==
    /\ call' = [op |-> "cumulative_points_by_round", submitter_id |-> s]
    /\ result' = cumulative_points_by_round(s)
    /\ UNCHANGED <<data, metadata>>

CallRoundRankings ==
    /\ call' = [op |-> "round_rankings"]
    /\ result' = round_rankings
    /\ spotify_data' = round_rankings_cache(spotify_data)
    /\ queried' = MetricsQueried(queried, spotify_data, RankedSubmissionsFrom(1),
                                 Len(RankedSubmissionsFrom(1)))
    /\ UNCHANGED <<data, spotify>>

CallMomentumScore(s) ==
    /\ call' = [op |-> "momentum_score", submitter_id |-> s]
    /\ result' = momentum_score(s)
    /\ UNCHANGED <<data, metadata>>

CallHotStreak(s, top_n) ==
    /\ call' = [op |-> "hot_streak_detection", submitter_id |-> s, top_n |-> top_n]
    /\ result' = hot_streak_detection(s, top_n)
    /\ spotify_data' = round_rankings_cache(spotify_data)
    /\ queried' = MetricsQueried(queried, spotify_data, RankedSubmissionsFrom(1),
                                 Len(RankedSubmissionsFrom(1)))
    /\ UNCHANGED <<data, spotify>>

CallFinishingStrength(s) ==
    /\ call' = [op |-> "finishing_strength", submitter_id |-> s]
    /\ result' = finishing_strength(s)
    /\ UNCHANGED <<data, metadata>>

CallPeakRound(s) ==
    /\ call' = [op |-> "peak_round", submitter_id |-> s]
    /\ result' = peak_round(s)
    /\ UNCHANGED <<data, metadata>>

CallBestStretch(s, window) ==
    /\ call' = [op |-> "best_stretch", submitter_id |-> s, window |-> window]
    /\ result' = best_stretch(s, window)
    /\ UNCHANGED <<data, metadata>>

CallPlayerArcType(s) ==
    /\ call' = [op |-> "player_arc_type", submitter_id |-> s]
    /\ result' = player_arc_type(s)
    /\ UNCHANGED <<data, metadata>>

CallGetAllPlayerArcs ==
    /\ call' = [op |-> "get_all_player_arcs"]
    /\ result' = get_all_player_arcs
    /\ UNCHANGED <<data, metadata>>

\* the round filters asked for: none, or the first round
Filters == {None} \cup {rounds[i] : i \in DOMAIN rounds \cap {1}}

CallBuildVotingGraph(round_id) ==
    /\ call' = [op |-> "build_voting_graph", round_id |-> round_id]
    /\ result' = build_voting_graph(round_id)
    /\ UNCHANGED <<data, metadata>>

CallVotingReciprocity(round_id) ==
    /\ call' = [op |-> "voting_reciprocity", round_id |-> round_id]
    /\ result' = voting_reciprocity(round_id)
    /\ UNCHANGED <<data, metadata>>

CallInfluenceScore(round_id) ==
    /\ call' = [op |-> "influence_score", round_id |-> round_id]
    /\ result' = influence_score(round_id)
    /\ UNCHANGED <<data, metadata>>

CallLoyaltyIndex(voter_id, round_id) ==
    /\ call' = [op |-> "loyalty_index", voter_id |-> voter_id,
                round_id |-> round_id]
    /\ result' = loyalty_index(voter_id, round_id)
    /\ UNCHANGED <<data, metadata>>

\* every round filter: none, or any round
AllFilters == {None} \cup {rounds[i] : i \in DOMAIN rounds}

SubmittedUris == {submissions[i].spotify_uri : i \in DOMAIN submissions}

CallGetSpotifyData(uri) ==
    /\ call' = [op |-> "get_spotify_data", uri |-> uri]
    /\ result' = get_spotify_data(spotify_data, uri)
    /\ spotify_data' = CacheAfter(spotify_data, uri)
    /\ queried' = QueriedAfter(queried, spotify_data, uri)
    /\ UNCHANGED <<data, spotify>>

CallControversyScore(spotify_uri, round_id) ==
    /\ call' = [op |-> "controversy_score", spotify_uri |-> spotify_uri,
                round_id |-> round_id]
    /\ result' = controversy_score(spotify_uri, round_id)
    /\ UNCHANGED <<data, metadata>>

CallObscurityScore(spotify_uri, round_id) ==
    /\ call' = [op |-> "obscurity_score", spotify_uri |-> spotify_uri,
                round_id |-> round_id]
    /\ result' = obscurity_score(spotify_data, spotify_uri, round_id)
    /\ spotify_data' = CacheAfter(spotify_data, spotify_uri)
    /\ queried' = QueriedAfter(queried, spotify_data, spotify_uri)
    /\ UNCHANGED <<data, spotify>>

CallGetAllSongMetrics(round_id) ==
    /\ call' = [op |-> "get_all_song_metrics", round_id |-> round_id]
    /\ \E df \in get_all_song_metrics(spotify_data, round_id) : result' = df
    /\ spotify_data' = all_song_metrics_cache(spotify_data, round_id)
    /\ queried' = MetricsQueried(queried, spotify_data, MetricSubmissions(round_id),
                                 Len(MetricSubmissions(round_id)))
    /\ UNCHANGED <<data, spotify>>

CallVoterSimilarityMatrix(round_id) ==
    /\ call' = [op |-> "voter_similarity_matrix", round_id |-> round_id]
    /\ result' = voter_similarity_matrix(round_id)
    /\ UNCHANGED <<data, metadata>>

CallGoldenEarScore(voter_id, round_id) ==
    /\ call' = [op |-> "golden_ear_score", voter_id |-> voter_id,
                round_id |-> round_id]
    /\ result' = golden_ear_score(voter_id, round_id)
    /\ UNCHANGED <<data, metadata>>

CallBiggestFanAndNemesis(submitter_id, round_id) ==
    /\ call' = [op |-> "biggest_fan_and_nemesis", submitter_id |-> submitter_id,
                round_id |-> round_id]
    /\ result' = biggest_fan_and_nemesis(submitter_id, round_id)
    /\ UNCHANGED <<data, metadata>>

-----------------------------------------------------------------------------
(* The checked leagues.                                                    *)

\* what a competitor does in a round: nothing, or one submission with a total
Cells(maxp) == {<<>>} \cup {<<p>> : p \in 0..maxp}

Identity(n) == [i \in 1..n |-> i]
Reversed(n) == [i \in 1..n |-> n + 1 - i]
Rotated(n) == [i \in 1..n |-> (i % n) + 1]

\* the round list: the identifiers need not come in ascending order
RoundOrders(n) == {Identity(n), Reversed(n), Rotated(n)}

Constant(n, cell) == [i \in 1..n |-> cell]
Alternating(n, a, b) == [i \in 1..n |-> IF i % 2 = 1 THEN a ELSE b]

\* the histories quoted in the specification
ExampleSeries ==
    { <<1, 5, 9>>, <<9, 5, 1>>, <<5, 5, 5>>, <<2, 2, 8, 8>>, <<7>> }

SeriesRow(series) == [i \in 1..Len(series) |-> <<series[i]>>]

\* Trajectory leagues: competitor 1 enters any subset of the rounds with any
\* totals, possibly with a second submission in round 2; competitor 2
\* collects one point in every round.
InitTraj ==
    \/ \E f \in [1..MaxRounds -> Cells(MaxPoints)], extra \in BOOLEAN :
          Loaded(Identity(MaxRounds),
                 << [i \in 1..MaxRounds |->
                        IF extra /\ i = 2 THEN f[i] \o <<1>> ELSE f[i]],
                    Constant(MaxRounds, <<1>>) >>,
                 FALSE)
    \/ \E series \in ExampleSeries :
          Loaded(Identity(Len(series)),
                 << SeriesRow(series), Constant(Len(series), <<1>>) >>, FALSE)

\* Ranking leagues: competitor 1 as above, competitor 2 collects one point
\* in every round, competitor 3 one point in every other round; the round
\* identifiers come in three orders and the submissions of a round in two.
InitRank ==
    \/ \E f \in [1..MaxRounds -> Cells(MaxPoints)], rev \in BOOLEAN,
          order \in RoundOrders(MaxRounds) :
          Loaded(order,
                 << f, Constant(MaxRounds, <<1>>),
                    Alternating(MaxRounds, <<1>>, <<>>) >>,
                 rev)
    \/ Loaded(<<1>>, << <<(<<10>>)>>, <<(<<10>>)>>, <<(<<5>>)>> >>, FALSE)

\* the histories of the other competitors of an arc league
Palette ==
    << Constant(ArcRounds, <<>>),
       [i \in 1..ArcRounds |-> IF i = 1 THEN <<0>> ELSE <<>>],
       Constant(ArcRounds, <<1>>),
       Constant(ArcRounds, <<ArcPoints>>),
       Alternating(ArcRounds, <<0>>, <<ArcPoints>>) >>

\* Arc leagues: competitor 1 enters any subset of the rounds with any
\* totals; each other competitor has one of the Palette histories (the arc
\* of a player depends on the others only through their averages and
\* deviations, so the others are listed in non-decreasing Palette order).
InitArc ==
    \E f \in [1..ArcRounds -> Cells(ArcPoints)],
       others \in [2..NumCompetitors -> 1..Len(Palette)] :
        /\ \A c \in 2..(NumCompetitors - 1) : others[c] <= others[c + 1]
        /\ Loaded(Identity(ArcRounds),
                  [c \in 1..NumCompetitors |->
                      IF c = 1 THEN f ELSE Palette[others[c]]],
                  FALSE)

\* Headliner leagues: every competitor has one of the Palette histories, in
\* any order
InitHead ==
    \E histories \in [1..NumCompetitors -> 1..Len(Palette)] :
        Loaded(Identity(ArcRounds),
               [c \in 1..NumCompetitors |-> Palette[histories[c]]],
               FALSE)

\* the leagues on which the rankings and the cumulative series are compared
InitAgree == InitTraj \/ InitRank

\* the display names of the competitors of a network league: all different,
\* or the first two alike
NetNames == { <<"ann", "bob", "cat">>, <<"ann", "ann", "cat">> }

\* Network leagues: two rounds; every competitor submits an item in round 1
\* and competitor 1 a second item in round 2.  There are two votes.  The
\* first is any vote: by a competitor or by a voter who is no competitor,
\* on a submitted item or on an item nobody submitted, with or without
\* points.  The second is a vote with points by a competitor on an item of
\* round 1 (possibly the voter's own).
NetSubmissions(n) ==
    [c \in 1..n |-> [round_id |-> 1, submitter_id |-> c, spotify_uri |-> Uri(c, 1)]]
    \o << [round_id |-> 2, submitter_id |-> 1, spotify_uri |-> Uri(1, 2)] >>

NetItems(n) ==
    {<<1, Uri(c, 1)>> : c \in 1..(n + 1)} \cup {<<2, Uri(1, 2)>>}

AnyVotes(n) ==
    {[round_id |-> item[1], voter_id |-> v, spotify_uri |-> item[2], points |-> p] :
        item \in NetItems(n), v \in 1..(n + 1), p \in {0, NetPoints}}

PlainVotes(n) ==
    {[round_id |-> 1, voter_id |-> v, spotify_uri |-> Uri(c, 1), points |-> p] :
        c \in 1..n, v \in 1..n, p \in 1..NetPoints}

LoadedNet(names, vote_rows) ==
    /\ rounds = <<1, 2>>
    /\ competitors = names
    /\ submissions = NetSubmissions(Len(names))
    /\ votes = vote_rows
    /\ spotify = NoClient
    /\ spotify_data = <<>>
    /\ queried = <<>>
    /\ call = [op |-> "init"]
    /\ result = None

\* a league without competitors has no submission and no vote
EmptyLeague ==
    /\ rounds = <<>>
    /\ competitors = <<>>
    /\ submissions = <<>>
    /\ votes = <<>>
    /\ spotify = NoClient
    /\ spotify_data = <<>>
    /\ queried = <<>>
    /\ call = [op |-> "init"]
    /\ result = None

InitNet ==
    \/ \E names \in NetNames :
         \E first \in AnyVotes(Len(names)), second \in PlainVotes(Len(names)) :
            LoadedNet(names, <<first, second>>)
    \/ EmptyLeague

\* Song leagues: three competitors and two rounds.  In round 1 competitors
\* 1 and 2 and a submitter who is no competitor submit an item each; in
\* round 2 competitor 3 submits the item competitor 1 submitted in round 1.
\* The votes on the first item of round 1 are any list of at most two votes,
\* or one of three longer or larger lists; the second item has no vote, one
\* vote or two; the other two submissions have fixed votes.
SongNames == <<"ann", "bob", "cat">>

SongSubmissions ==
    << [round_id |-> 1, submitter_id |-> 1, spotify_uri |-> Uri(1, 1)],
       [round_id |-> 1, submitter_id |-> 2, spotify_uri |-> Uri(2, 1)],
       [round_id |-> 1, submitter_id |-> 4, spotify_uri |-> Uri(4, 1)],
       [round_id |-> 2, submitter_id |-> 3, spotify_uri |-> Uri(1, 1)] >>

VoteLists(maxp) ==
    {<<>>} \cup {<<p>> : p \in 0..maxp} \cup {<<p, q>> : p, q \in 0..maxp}
    \cup {<<5, 5, 5>>, <<1, 5>>, <<5>>}

FewVoteLists == {<<>>, <<1>>, <<0, 2>>}

SongVotes(round_id, spotify_uri, points) ==
    [k \in 1..Len(points) |->
        [round_id |-> round_id, voter_id |-> NextVoter(k, Len(SongNames)),
         spotify_uri |-> spotify_uri, points |-> points[k]]]

\* the clients: none, or one whose service reports a popularity for the
\* items of competitors 1 and 2 and fails for the third item
Catalogues ==
    {NoClient} \cup
    {Client([u \in {Uri(1, 1), Uri(2, 1), Uri(4, 1)} |->
                IF u = Uri(1, 1) THEN p ELSE IF u = Uri(2, 1) THEN 1 ELSE -1]) :
        p \in {0, 1, MaxPopularity}}

LoadedSong(first, second, client) ==
    /\ rounds = <<1, 2>>
    /\ competitors = SongNames
    /\ submissions = SongSubmissions
    /\ votes = SongVotes(1, Uri(1, 1), first) \o SongVotes(1, Uri(2, 1), second)
               \o SongVotes(1, Uri(4, 1), <<1, 1>>) \o SongVotes(2, Uri(1, 1), <<2>>)
    /\ spotify = client
    /\ spotify_data = <<>>
    /\ queried = <<>>
    /\ call = [op |-> "init"]
    /\ result = None

InitSong ==
    \E first \in VoteLists(SongPoints), second \in FewVoteLists,
       client \in Catalogues :
        LoadedSong(first, second, client)

\* Similarity leagues: three competitors, or one; two rounds, and three items
\* submitted in round 1.  Competitors 1 and 2 give every item any number of
\* points, where no points means no vote; competitor 3 votes on two items or
\* not at all.  No vote is cast in round 2.
SimNames == { <<"ann", "bob", "cat">>, <<"ann">> }

SimSubmissions ==
    [c \in 1..3 |-> [round_id |-> 1, submitter_id |-> c, spotify_uri |-> Uri(c, 1)]]

\* the votes of one voter, from the points per item
SimVotesOf(voter_id, points) ==
    SelectSeq([c \in 1..Len(points) |->
                  [round_id |-> 1, voter_id |-> voter_id,
                   spotify_uri |-> Uri(c, 1), points |-> points[c]]],
              LAMBDA v : v.points > 0)

LoadedSim(names, first, second, third) ==
    /\ rounds = <<1, 2>>
    /\ competitors = names
    /\ submissions = SimSubmissions
    /\ votes = SimVotesOf(1, first)
               \o (IF Len(names) > 1
                   THEN SimVotesOf(2, second) \o SimVotesOf(3, third)
                   ELSE <<>>)
    /\ spotify = NoClient
    /\ spotify_data = <<>>
    /\ queried = <<>>
    /\ call = [op |-> "init"]
    /\ result = None

InitSim ==
    \E names \in SimNames,
       first \in [1..3 -> 0..SimPoints], second \in [1..3 -> 0..SimPoints],
       third \in {<<0, 0, 0>>, <<1, 2, 0>>} :
        LoadedSim(names, first, second, third)

\* Golden-ear leagues: three competitors, two rounds, three items submitted
\* in round 1 and a fourth nobody else votes on.  Competitor 1 gives the
\* three items any number of points and the fourth item one point or none;
\* competitor 2 gives each of the three items no points or the most, or
\* casts no vote on it; competitor 3 votes on two of them or not at all.
\* No vote is cast in round 2.
EarVotesOf(voter_id, points) ==
    SelectSeq([c \in 1..Len(points) |->
                  [round_id |-> 1, voter_id |-> voter_id,
                   spotify_uri |-> Uri(c, 1), points |-> points[c]]],
              LAMBDA v : v.points >= 0)

LoadedEar(first, second, third) ==
    /\ rounds = <<1, 2>>
    /\ competitors = <<"ann", "bob", "cat">>
    /\ submissions = SimSubmissions
    /\ votes = EarVotesOf(1, first) \o EarVotesOf(2, second)
               \o EarVotesOf(3, third)
    /\ spotify = NoClient
    /\ spotify_data = <<>>
    /\ queried = <<>>
    /\ call = [op |-> "init"]
    /\ result = None

InitEar ==
    \E first \in [1..3 -> 0..EarPoints], alone \in 0..1,
       second \in [1..3 -> {-1, 0, EarPoints}],
       third \in {<<-1, -1, -1>>, <<1, 2, -1>>} :
        LoadedEar(first \o <<alone>>, second, third)

\* Leagues with references that cannot be resolved: the network league of
\* three competitors with a further submission in round 1 by a submitter who
\* is no competitor.  There are two votes.  The first is any vote: by a
\* competitor or by a voter who is no competitor, on any submitted item or
\* on an item nobody submitted, with or without points.  The second gives
\* the item of competitor 1 a point.
RefSubmissions ==
    NetSubmissions(3)
    \o << [round_id |-> 1, submitter_id |-> 4, spotify_uri |-> Uri(4, 1)] >>

RefVotes ==
    {[round_id |-> item[1], voter_id |-> v, spotify_uri |-> item[2], points |-> p] :
        item \in {<<1, Uri(c, 1)>> : c \in 1..5} \cup {<<2, Uri(1, 2)>>},
        v \in 1..4, p \in {0, NetPoints}}

LoadedRef(vote_rows) ==
    /\ rounds = <<1, 2>>
    /\ competitors = <<"ann", "bob", "cat">>
    /\ submissions = RefSubmissions
    /\ votes = vote_rows
    /\ spotify = NoClient
    /\ spotify_data = <<>>
    /\ queried = <<>>
    /\ call = [op |-> "init"]
    /\ result = None

InitRef ==
    \E first \in RefVotes, v \in 2..3 :
        LoadedRef(<<first, [round_id |-> 1, voter_id |-> v,
                            spotify_uri |-> Uri(1, 1), points |-> 1]>>)

\* Leagues for the metadata lookups: the song league with one vote, with
\* every client; the items looked up are the submitted ones and one more
\* that the service does not know.
InitLookup == \E client \in Catalogues : LoadedSong(<<1>>, <<>>, client)

LookupUris == SubmittedUris \cup {Uri(5, 1)}

Init ==
    \/ InitTraj \/ InitRank \/ InitArc \/ InitNet \/ InitSong \/ InitSim
    \/ InitEar \/ InitRef \/ InitLookup \/ InitHead

NextTraj ==
    \/ \E s \in Callers : CallCumulativePoints(s)
    \/ \E s \in Callers : CallMomentumScore(s)
    \/ \E s \in Callers : CallFinishingStrength(s)
    \/ \E s \in Callers : CallPeakRound(s)
    \/ \E s \in Callers, window \in 1..MaxWindow : CallBestStretch(s, window)

NextRank ==
    \/ CallRoundRankings
    \/ \E s \in Callers, top_n \in 1..MaxTopN : CallHotStreak(s, top_n)

NextArc ==
    \/ \E s \in Callers : CallPlayerArcType(s)
    \/ CallGetAllPlayerArcs

NextNet ==
    \/ \E round_id \in Filters : CallBuildVotingGraph(round_id)
    \/ \E round_id \in Filters : CallVotingReciprocity(round_id)
    \/ \E round_id \in Filters : CallInfluenceScore(round_id)
    \/ \E voter_id \in Callers, round_id \in Filters :
          CallLoyaltyIndex(voter_id, round_id)

NextSong ==
    \/ \E spotify_uri \in SubmittedUris, round_id \in Filters :
         CallControversyScore(spotify_uri, round_id)
    \/ \E spotify_uri \in SubmittedUris, round_id \in Filters :
         CallObscurityScore(spotify_uri, round_id)
    \/ \E round_id \in AllFilters : CallGetAllSongMetrics(round_id)

NextSim ==
    \E round_id \in AllFilters : CallVoterSimilarityMatrix(round_id)

NextEar ==
    \E voter_id \in Callers, round_id \in AllFilters :
        CallGoldenEarScore(voter_id, round_id)

NextHead == CallGetAllPlayerArcs

NextAgree ==
    \/ CallRoundRankings
    \/ \E s \in Callers : CallCumulativePoints(s)

NextFan ==
    \E submitter_id \in Callers, round_id \in AllFilters :
        CallBiggestFanAndNemesis(submitter_id, round_id)

NextRef ==
    \/ \E round_id \in Filters : CallBuildVotingGraph(round_id)
    \/ \E round_id \in Filters : CallVotingReciprocity(round_id)
    \/ \E round_id \in Filters : CallInfluenceScore(round_id)
    \/ \E voter_id \in Callers, round_id \in Filters :
          CallLoyaltyIndex(voter_id, round_id)
    \/ \E submitter_id \in Callers, round_id \in Filters :
          CallBiggestFanAndNemesis(submitter_id, round_id)
    \/ CallRoundRankings
    \/ CallGetAllSongMetrics(None)

NextLookup ==
    \/ \E uri \in LookupUris : CallGetSpotifyData(uri)
    \/ \E spotify_uri \in SubmittedUris : CallObscurityScore(spotify_uri, None)

Next ==
    \/ NextTraj \/ NextRank \/ NextArc \/ NextNet \/ NextSong \/ NextSim
    \/ NextEar \/ NextFan \/ NextRef \/ NextLookup \/ NextHead \/ NextAgree

SpecTraj == InitTraj /\ [][NextTraj]_vars
SpecRank == InitRank /\ [][NextRank]_vars
SpecArc == InitArc /\ [][NextArc]_vars
SpecNet == InitNet /\ [][NextNet]_vars
SpecSong == InitSong /\ [][NextSong]_vars
SpecSim == InitSim /\ [][NextSim]_vars
SpecEar == InitEar /\ [][NextEar]_vars
SpecFan == InitNet /\ [][NextFan]_vars
SpecRef == InitRef /\ [][NextRef]_vars
SpecLookup == InitLookup /\ [][NextLookup]_vars
SpecHead == InitHead /\ [][NextHead]_vars
SpecAgree == InitAgree /\ [][NextAgree]_vars
Spec == Init /\ [][Next]_vars

-----------------------------------------------------------------------------
(* Properties of player_arc_type and get_all_player_arcs (arc leagues).    *)

Categories == {Headliner, OneHitWonder, OpeningAct, Encore, CrowdFavorite, WildCard}

HasSubmission(c) == \E i \in 1..Len(submissions) : submissions[i].submitter_id = c

\* the league-wide population of the specification: the competitors with at
\* least one submission
Submitters == {c \in DOMAIN competitors : HasSubmission(c)}

AvgOf(c) == consistency_score(c, None)[1]
DevOf(c) == consistency_score(c, None)[2]

\* percentile p / n >= a / b and p / n < a / b, for n > 0
AvgBelow(s) == Cardinality({t \in Submitters : RLt(AvgOf(t), AvgOf(s))})
DevBelow(s) == Cardinality({t \in Submitters : RLt(DevOf(t), DevOf(s))})
Population == Cardinality(Submitters)

\* the seven rules in their order, as conditions on submitter s
RuleMatches(s) ==
    LET avg == AvgOf(s)
        fs == finishing_strength(s)
        peak == peak_round(s).points
    IN  << 4 * AvgBelow(s) >= 3 * Population /\ 2 * DevBelow(s) < Population,
           RLt(<<2 * avg[1], avg[2]>>, RInt(peak)),
           RLt(<<10 * fs[1], fs[2]>>, <<-3 * avg[1], avg[2]>>),
           RLt(<<3 * avg[1], avg[2]>>, <<10 * fs[1], fs[2]>>),
           4 * DevBelow(s) < Population,
           4 * DevBelow(s) >= 3 * Population,
           TRUE >>

RuleCategory ==
    <<Headliner, OneHitWonder, OpeningAct, Encore, CrowdFavorite, WildCard,
      CrowdFavorite>>

FirstMatch(s) ==
    LET m == RuleMatches(s)
        k == CHOOSE i \in 1..7 : m[i] /\ \A j \in 1..(i - 1) : ~m[j]
    IN  RuleCategory[k]

\* C1: player_arc_type returns the category of the first rule that matches,
\* the percentiles being taken over the competitors with a submission, and
\* the result is one of the six categories.
C1_FirstMatchingRule ==
    call.op = "player_arc_type" =>
        /\ result \in Categories
        /\ Submitters # {} => result = FirstMatch(call.submitter_id)

\* C2: a submitter whose average is in the top quartile of the active
\* submitters (at least three quarters of them have a strictly lower
\* average) and whose deviation is strictly below the league median (at
\* least half of them have a strictly larger deviation) is a Headliner,
\* whatever other rules match.
TopQuartile(s) == 4 * AvgBelow(s) >= 3 * Population

BelowMedian(s) ==
    2 * Cardinality({t \in Submitters : RLt(DevOf(s), DevOf(t))}) >= Population

C2_HeadlinerPrecedence ==
    (/\ call.op = "player_arc_type"
     /\ call.submitter_id \in Submitters
     /\ TopQuartile(call.submitter_id)
     /\ BelowMedian(call.submitter_id))
    => result = Headliner

\* C3: the percentile population of player_arc_type is exactly the
\* competitors with at least one submission, and get_all_player_arcs lists
\* exactly those competitors, once each.
C3_PopulationIsSubmitters ==
    /\ call.op = "player_arc_type" =>
          ActiveStats = [i \in 1..Len(SortedIds(Submitters)) |->
                            consistency_score(SortedIds(Submitters)[i], None)]
    /\ call.op = "get_all_player_arcs" =>
          /\ {result[i].submitter_id : i \in 1..Len(result)} = Submitters
          /\ Len(result) = Cardinality(Submitters)

-----------------------------------------------------------------------------
(* Properties of round_rankings and hot_streak_detection (ranking          *)
(* leagues).                                                               *)

\* the positions in data.submissions of the submissions of a round
EntriesOf(round_id) == {i \in 1..Len(submissions) : submissions[i].round_id = round_id}

ScoreOf(i) == total_points(submissions[i].spotify_uri, submissions[i].round_id)

\* the place of submission i in its round: behind every submission of the
\* round with more points, and behind the earlier ones with as many
PlaceOf(i) ==
    1 + Cardinality({j \in EntriesOf(submissions[i].round_id) :
                        \/ ScoreOf(j) > ScoreOf(i)
                        \/ (ScoreOf(j) = ScoreOf(i) /\ j < i)})

\* the number of rows of the rounds listed before position k of data.rounds
RowsBefore(k) ==
    Cardinality({i \in 1..Len(submissions) :
                    \E q \in 1..(k - 1) : submissions[i].round_id = rounds[q]})

\* C4: round_rankings lists, round after round in the order of data.rounds,
\* every submission of the round exactly once: submission i stands at its
\* place (more points first, equal points in submission order) and its rank
\* is that place, so the ranks of a round are 1, 2, ..., n.
C4_RankingsStableDescending ==
    call.op = "round_rankings" =>
        /\ Len(result) = RowsBefore(Len(rounds) + 1)
        /\ \A k \in 1..Len(rounds) : \A i \in EntriesOf(rounds[k]) :
              LET row == result[RowsBefore(k) + PlaceOf(i)]
              IN  /\ row.round_id = rounds[k]
                  /\ row.submitter_id = submissions[i].submitter_id
                  /\ row.points = ScoreOf(i)
                  /\ row.rank = PlaceOf(i)

\* the league of the specification: A, B, C scored 10, 10, 5 in one round
C4_TieKeepsSubmissionOrder ==
    /\ call.op = "round_rankings"
    /\ Len(result) = 3
    /\ [i \in 1..3 |-> result[i].points] = <<10, 10, 5>>
    /\ [i \in 1..3 |-> result[i].submitter_id] = <<1, 2, 3>>
    /\ [i \in 1..3 |-> result[i].rank] = <<1, 2, 3>>

\* the top-finish flags of a submitter in the order of data.rounds (the rows
\* of round_rankings come round after round in that order)
ChronologicalFlags(s, top_n) ==
    LET rows == SelectSeq(round_rankings, LAMBDA row : row.submitter_id = s)
    IN  [i \in 1..Len(rows) |-> rows[i].rank <= top_n]

\* the runs of consecutive top finishes: <<first, last>> positions
Runs(flags) ==
    {r \in (1..Len(flags)) \X (1..Len(flags)) :
        r[1] <= r[2] /\ \A i \in r[1]..r[2] : flags[i]}

LongestRun(flags) ==
    IF Runs(flags) = {} THEN 0
    ELSE LET r == CHOOSE r \in Runs(flags) :
                      \A q \in Runs(flags) : q[2] - q[1] <= r[2] - r[1]
         IN  r[2] - r[1] + 1

LastRun(flags) ==
    LET ending == {r \in Runs(flags) : r[2] = Len(flags)}
    IN  IF ending = {} THEN 0
        ELSE LET r == CHOOSE r \in ending : \A q \in ending : r[1] <= q[1]
             IN  r[2] - r[1] + 1

\* C8: hot_streak_detection evaluates the ranks in the order of data.rounds:
\* max_streak is the longest run of top finishes, current_streak the run
\* that ends at the most recent round, total_top_finishes their number.
C8_StreaksInRoundOrder ==
    call.op = "hot_streak_detection" =>
        LET flags == ChronologicalFlags(call.submitter_id, call.top_n)
        IN  /\ result.max_streak = LongestRun(flags)
            /\ result.current_streak = LastRun(flags)
            /\ result.total_top_finishes =
                   Cardinality({i \in 1..Len(flags) : flags[i]})

-----------------------------------------------------------------------------
(* Properties of the per-submitter series (trajectory leagues).            *)

\* the sum of the points of a set of votes, by position in data.votes
RECURSIVE PointsOfVotes(_)
PointsOfVotes(J) ==
    IF J = {} THEN 0
    ELSE LET j == CHOOSE j \in J : TRUE
         IN  votes[j].points + PointsOfVotes(J \ {j})

\* the votes a submission collects in its round
VotesOn(i) ==
    {j \in 1..Len(votes) :
        /\ votes[j].spotify_uri = submissions[i].spotify_uri
        /\ votes[j].round_id = submissions[i].round_id}

RECURSIVE PointsOfEntries(_)
PointsOfEntries(I) ==
    IF I = {} THEN 0
    ELSE LET i == CHOOSE i \in I : TRUE
         IN  PointsOfVotes(VotesOn(i)) + PointsOfEntries(I \ {i})

\* the submissions of submitter s in the round at position k of data.rounds
EntriesIn(s, k) ==
    {i \in 1..Len(submissions) :
        submissions[i].submitter_id = s /\ submissions[i].round_id = rounds[k]}

\* the submitter's total of the round at position k
RoundTotal(s, k) == PointsOfEntries(EntriesIn(s, k))

\* the positions of the rounds the submitter entered, in competition order,
\* and the totals of those rounds
ScoredRounds(s) == SortedIds({k \in 1..Len(rounds) : EntriesIn(s, k) # {}})

Series(s) == [q \in 1..Len(ScoredRounds(s)) |-> RoundTotal(s, ScoredRounds(s)[q])]

\* C5: cumulative_points_by_round has one entry per round; each entry is the
\* previous one (0 before the first) plus the submitter's total of the
\* round, the series never decreases, and the last entry is the sum of all
\* the submitter's round totals.
C5_CumulativeIsRunningSum ==
    call.op = "cumulative_points_by_round" =>
        LET s == call.submitter_id
            n == Len(rounds)
        IN  /\ DOMAIN result = {rounds[k] : k \in 1..n}
            /\ Cardinality(DOMAIN result) = n
            /\ \A k \in 1..n :
                  /\ result[rounds[k]] =
                        (IF k = 1 THEN 0 ELSE result[rounds[k - 1]]) + RoundTotal(s, k)
                  /\ k > 1 => result[rounds[k]] >= result[rounds[k - 1]]
            /\ n > 0 => result[rounds[n]] = SumSeq([k \in 1..n |-> RoundTotal(s, k)])

\* a round without a submission repeats a positive value, a later round adds
C5_GapRepeatsValue ==
    /\ call.op = "cumulative_points_by_round"
    /\ \E k \in 2..(Len(rounds) - 1) :
          /\ EntriesIn(call.submitter_id, k) = {}
          /\ result[rounds[k]] = result[rounds[k - 1]]
          /\ result[rounds[k]] > 0
          /\ result[rounds[k + 1]] > result[rounds[k]]

\* the least-squares slope of the min-max-normalised totals y against the
\* round indices x: sum (x - mean x)(y_norm - mean y_norm) over
\* sum (x - mean x)^2, both sums over the same points, scaled by n^2
RegressionSlope(x, y) ==
    LET n == Len(x)
        lo == MinSeq(y)
        range == MaxSeq(y) - lo
        dx == [i \in 1..n |-> n * x[i] - SumSeq(x)]
        dy == [i \in 1..n |-> n * (y[i] - lo) - (SumSeq(y) - n * lo)]
    IN  <<SumProd(dx, dy), range * SumProd(dx, dx)>>

RoundIndices(s) == [q \in 1..Len(ScoredRounds(s)) |-> ScoredRounds(s)[q] - 1]

AllEqual(y) == \A i, j \in 1..Len(y) : y[i] = y[j]

\* C6: with at least 2 scored rounds and totals not all equal, momentum_score
\* is the least-squares regression slope of the normalised totals against
\* the round index; the totals 1, 5, 9 in rounds 0, 1, 2 give 1/2.
C6_MomentumIsRegressionSlope ==
    (/\ call.op = "momentum_score"
     /\ Len(Series(call.submitter_id)) >= 2
     /\ ~AllEqual(Series(call.submitter_id)))
    => /\ REq(result, RegressionSlope(RoundIndices(call.submitter_id),
                                   Series(call.submitter_id)))
       /\ Series(call.submitter_id) = <<1, 5, 9>> => REq(result, <<1, 2>>)

StrictlyIncreasing(y) == \A i \in 1..(Len(y) - 1) : y[i] < y[i + 1]

\* the rows of the league in which the same rounds carry the totals in the
\* opposite order
ReversedScores(round_scores) ==
    [i \in 1..Len(round_scores) |->
        [round_index |-> round_scores[i].round_index,
         round_id |-> round_scores[i].round_id,
         points |-> round_scores[Len(round_scores) + 1 - i].points]]

\* C7: for a submitter with a submission in every round, strictly increasing
\* totals give a positive momentum, the reversed totals give exactly the
\* negated momentum, all-equal totals give 0; fewer than 2 scored rounds
\* give 0.
C7_MomentumSignAndReversal ==
    call.op = "momentum_score" =>
        LET s == call.submitter_id
            y == Series(s)
            back == MomentumOfScores(ReversedScores(get_round_scores(s)))
        IN  /\ Len(y) < 2 => result[1] = 0
            /\ Len(y) = Len(rounds) =>
                  /\ (Len(y) >= 2 /\ StrictlyIncreasing(y)) => RLt(RZero, result)
                  /\ REq(back, <<-result[1], result[2]>>)
                  /\ AllEqual(y) => result[1] = 0

\* rising totals over at least three rounds, a positive momentum
C7_RisingSeries ==
    /\ call.op = "momentum_score"
    /\ Len(Series(call.submitter_id)) = Len(rounds)
    /\ Len(rounds) >= 3
    /\ StrictlyIncreasing(Series(call.submitter_id))
    /\ RLt(RZero, result)

\* the sum of y[a..b]
Segment(y, a, b) == SumSeq(SubSeq(y, a, b))

\* C9: finishing_strength splits the chronological totals of the scored
\* rounds at floor(n / 2) and returns the mean of the second part minus the
\* mean of the first; 0 with fewer than 2 scored rounds; 2, 2, 8, 8 gives 6.
C9_FinishingStrengthSplit ==
    call.op = "finishing_strength" =>
        LET y == Series(call.submitter_id)
            n == Len(y)
            h == n \div 2
        IN  /\ n < 2 => result[1] = 0
            /\ n >= 2 =>
                  \* result = second / (n - h) - first / h
                  result[1] * h * (n - h) =
                      result[2] * (h * Segment(y, h + 1, n) - (n - h) * Segment(y, 1, h))
            /\ y = <<2, 2, 8, 8>> => REq(result, RInt(6))

\* an odd number of scored rounds, the halves differ
C9_OddSplit ==
    /\ call.op = "finishing_strength"
    /\ Len(Series(call.submitter_id)) = 3
    /\ Series(call.submitter_id)[1] # Series(call.submitter_id)[2]
    /\ ~REq(result, RZero)

\* the total of the run of w scored rounds that starts at the q-th
WindowTotal(y, w, q) == Segment(y, q, q + w - 1)

\* C10: best_stretch returns the largest total of `window` consecutive
\* scored rounds, the 1-indexed start of the earliest run that reaches it
\* and total / window; with fewer scored rounds than `window` it uses all of
\* them, and with none it returns zeros.
C10_BestStretchEarliestMaximum ==
    call.op = "best_stretch" =>
        LET y == Series(call.submitter_id)
            n == Len(y)
            w == call.window
            starts == 1..(n - w + 1)
        IN  /\ n = 0 =>
                  /\ result.start_round = 0
                  /\ result.total_points = 0
                  /\ result.avg_points[1] = 0
            /\ (0 < n /\ n < w) =>
                  /\ result.start_round = 1
                  /\ result.total_points = SumSeq(y)
                  /\ REq(result.avg_points, <<SumSeq(y), n>>)
            /\ n >= w =>
                  /\ result.start_round \in starts
                  /\ result.total_points = WindowTotal(y, w, result.start_round)
                  /\ \A q \in starts : WindowTotal(y, w, q) <= result.total_points
                  /\ \A q \in starts :
                        WindowTotal(y, w, q) = result.total_points => result.start_round <= q
                  /\ REq(result.avg_points, <<result.total_points, w>>)

\* two runs reach the maximum, and it is not the first run that does
C10_TiedRuns ==
    /\ call.op = "best_stretch"
    /\ LET y == Series(call.submitter_id)
           w == call.window
       IN  /\ Len(y) > w
           /\ result.start_round > 1
           /\ \E q \in (result.start_round + 1)..(Len(y) - w + 1) :
                 WindowTotal(y, w, q) = result.total_points

-----------------------------------------------------------------------------
(* Properties of the voting graph (network leagues).                       *)

\* the votes that pass a round filter
InFilter(j, round_id) == round_id = None \/ votes[j].round_id = round_id

\* the competitors who submitted the item a vote is on, in the vote's round
SubmittersOfVote(j) ==
    {submissions[i].submitter_id : i \in
        {i \in 1..Len(submissions) :
            /\ submissions[i].spotify_uri = votes[j].spotify_uri
            /\ submissions[i].round_id = votes[j].round_id}}

\* the votes with points that voter v cast on an item submitted by s
VotesFromTo(v, s, round_id) ==
    {j \in 1..Len(votes) :
        /\ votes[j].voter_id = v
        /\ votes[j].points > 0
        /\ InFilter(j, round_id)
        /\ s \in SubmittersOfVote(j)}

GraphBuilt == call.op = "build_voting_graph" /\ ~IsRaise(result)

\* no two competitors carry the same display name
DistinctNames ==
    \A a \in DOMAIN competitors, b \in DOMAIN competitors :
        a # b => competitors[a] # competitors[b]

\* C11: in the graph of build_voting_graph the edge from a competitor v to
\* another competitor s has the sum of the points of the votes with points
\* that v cast, within the round filter, on the items s submitted, and does
\* not exist when there is no such vote.
C11_EdgesAreVotesBetweenCompetitors ==
    GraphBuilt =>
        \A v \in DOMAIN competitors, s \in DOMAIN competitors :
            v # s =>
                result.returned.weight[competitors[v]][competitors[s]]
                    = PointsOfVotes(VotesFromTo(v, s, call.round_id))

\* C12: the graph has one node for every competitor, whatever the filter.
C12_OneNodePerCompetitor ==
    GraphBuilt =>
        Len(result.returned.nodes) = Cardinality(DOMAIN competitors)

\* the votes with points a voter cast on an item that is not the voter's own
\* and belongs to a competitor of the given name
LoyalVotes(v, name, round_id) ==
    {j \in 1..Len(votes) :
        /\ votes[j].voter_id = v
        /\ votes[j].points > 0
        /\ InFilter(j, round_id)
        /\ \E s \in SubmittersOfVote(j) :
              s # v /\ s \in DOMAIN competitors /\ competitors[s] = name}

\* C13: the graph has no edge from a node to itself, and loyalty_index
\* averages, for every submitter name, only votes on items of others.
C13_SelfVotesExcluded ==
    /\ GraphBuilt =>
          \A u \in NodeKeys(result.returned) : result.returned.weight[u][u] = 0
    /\ (call.op = "loyalty_index" /\ ~IsRaise(result)) =>
          \A name \in DOMAIN result.returned :
              LET J == LoyalVotes(call.voter_id, name, call.round_id)
              IN  /\ J # {}
                  /\ REq(result.returned[name], <<PointsOfVotes(J), Cardinality(J)>>)

\* the rows of a reciprocity table for the ordered pair (a, b)
RowsOfPair(rows, a, b) ==
    {i \in 1..Len(rows) : rows[i].voter = a /\ rows[i].submitter = b}

Smaller(m, n) == IF m <= n THEN m ELSE n
Larger(m, n) == IF m >= n THEN m ELSE n

\* C14: voting_reciprocity has a row for the ordered pair (a, b) of distinct
\* nodes exactly when one of the edges a -> b, b -> a has a weight; the row
\* carries the two weights and min / max as its score.
C14_ReciprocityRows ==
    (call.op = "voting_reciprocity" /\ ~IsRaise(result)) =>
        LET G == build_voting_graph(call.round_id).returned
            rows == result.returned
        IN  /\ \A i \in 1..Len(rows) :
                  /\ rows[i].voter \in NodeKeys(G)
                  /\ rows[i].submitter \in NodeKeys(G)
            /\ \A a \in NodeKeys(G), b \in NodeKeys(G) :
                  LET given == G.weight[a][b]
                      received == G.weight[b][a]
                      found == RowsOfPair(rows, a, b)
                  IN  IF a # b /\ (given # 0 \/ received # 0)
                      THEN /\ Cardinality(found) = 1
                           /\ \A i \in found :
                                 /\ rows[i].points_given = given
                                 /\ rows[i].points_received = received
                                 /\ REq(rows[i].reciprocity_score,
                                        <<Smaller(given, received),
                                          Larger(given, received)>>)
                      ELSE found = {}

\* a table with a one-way pair and a two-way pair of unequal weights
C14_OneWayAndTwoWay ==
    /\ call.op = "voting_reciprocity"
    /\ ~IsRaise(result)
    /\ \E i \in 1..Len(result.returned) :
          /\ result.returned[i].points_given > result.returned[i].points_received
          /\ result.returned[i].points_received > 0
    /\ DistinctNames

\* C15: influence_score raises nothing, and returns an empty result for a
\* league without competitors.
C15_InfluenceNeverRaises ==
    call.op = "influence_score" =>
        /\ ~IsRaise(result)
        /\ DOMAIN competitors = {} => result.returned = <<>>

\* the elements of a finite set, listed in some order
RECURSIVE SortedNames(_)
SortedNames(S) ==
    IF S = {} THEN <<>>
    ELSE LET m == CHOOSE x \in S : TRUE
         IN  <<m>> \o SortedNames(S \ {m})

\* the scores of a result add up to one
SumsToOne(scores) ==
    \E u \in DOMAIN scores :
        LET D == scores[u][2]
            nodes == SortedNames(DOMAIN scores)
        IN  /\ \A w \in DOMAIN scores : D % scores[w][2] = 0
            /\ SumSeq([i \in 1..Len(nodes) |->
                   scores[nodes[i]][1] * (D \div scores[nodes[i]][2])]) = D

\* C16: for a graph with a node, influence_score has one score per node,
\* none negative, and the scores add up to 1; when the graph has no edge
\* every node has the score 1 / n.
C16_InfluenceIsDistribution ==
    (call.op = "influence_score" /\ ~IsRaise(result)) =>
        LET G == build_voting_graph(call.round_id).returned
            scores == result.returned
            n == Len(G.nodes)
        IN  n >= 1 =>
              /\ DOMAIN scores = NodeKeys(G)
              /\ \A u \in DOMAIN scores : ~RLt(scores[u], RZero)
              /\ SumsToOne(scores)
              /\ (\A u \in NodeKeys(G), v \in NodeKeys(G) : G.weight[u][v] = 0)
                    => \A u \in DOMAIN scores : REq(scores[u], <<1, n>>)

\* scores of a graph with an edge and with a node without out-edges that
\* are not all alike
C16_UnevenScores ==
    /\ DistinctNames
    /\ call.op = "influence_score"
    /\ ~IsRaise(result)
    /\ \E u \in DOMAIN result.returned, v \in DOMAIN result.returned :
          /\ result.returned[u][2] = result.returned[v][2]
          /\ result.returned[u][1] < result.returned[v][1]
    /\ LET G == build_voting_graph(call.round_id).returned
       IN  \E u \in NodeKeys(G) : OutWeight(G, u) = 0

-----------------------------------------------------------------------------
(* Properties of the song metrics (song leagues).                          *)

UnderFilter(rid, round_id) == round_id = None \/ rid = round_id

\* the points of the votes on an item, of one round or of all rounds
PointsOn(spotify_uri, round_id) ==
    LET on == SelectSeq(votes, LAMBDA v :
                  v.spotify_uri = spotify_uri /\ UnderFilter(v.round_id, round_id))
    IN  [k \in 1..Len(on) |-> on[k].points]

\* the mean of the squared distances of the points from their mean
MeanSquaredDeviation(points) ==
    LET n == Len(points)
        total == SumSeq(points)
    IN  <<SumSeq([k \in 1..n |-> (n * points[k] - total) * (n * points[k] - total)]),
          n * n * n>>

\* C17: controversy_score is the population standard deviation of the points
\* of the votes on the item under the filter, and 0.0 for fewer than two
\* votes: the votes 5, 5, 5 give 0.0, the votes 1, 5 give 2.0 (variance 4),
\* one vote gives 0.0; the score is never negative and is 0.0 when all the
\* votes carry the same points.
C17_ControversyIsPopulationStd ==
    call.op = "controversy_score" =>
        LET points == PointsOn(call.spotify_uri, call.round_id)
        IN  /\ result[2] > 0 /\ result[1] >= 0
            /\ Len(points) < 2 => REq(result, RZero)
            /\ Len(points) >= 2 => REq(result, MeanSquaredDeviation(points))
            /\ (\A k \in 1..Len(points) : points[k] = points[1])
                   => REq(result, RZero)
            /\ points = <<5, 5, 5>> => REq(result, RZero)
            /\ points = <<1, 5>> => REq(result, RInt(4))

\* the score of two votes that differ was asked for
C17_TwoVotesApart ==
    /\ call.op = "controversy_score"
    /\ PointsOn(call.spotify_uri, call.round_id) = <<1, 5>>
    /\ REq(result, RInt(4))

\* the popularity the dataset holds for the item of the call
PopularityOfCall == spotify_data[call.spotify_uri].popularity

TotalOfCall == SumSeq(PointsOn(call.spotify_uri, call.round_id))

\* C18 as stated: obscurity_score is total_points / (popularity + 1), is
\* defined for every popularity from 0 to 100, is strictly increasing in
\* total_points for a fixed popularity, and is strictly decreasing in
\* popularity for every fixed non-negative total_points.
C18_StrictlyDecreasingInPopularity ==
    call.op = "obscurity_score" =>
        /\ result[2] > 0
        /\ REq(result, <<TotalOfCall, PopularityOfCall + 1>>)
        /\ \A t \in 0..(TotalOfCall + SongPoints) :
               t > TotalOfCall => RLt(result, Quotient(t, PopularityOfCall))
        /\ \A p \in 0..MaxPopularity :
               /\ Quotient(TotalOfCall, p)[2] > 0
               /\ p > PopularityOfCall => RLt(Quotient(TotalOfCall, p), result)

\* C18: obscurity_score is total_points / (popularity + 1), is defined for
\* every popularity from 0 to 100, is strictly increasing in total_points
\* for a fixed popularity, is strictly decreasing in popularity for every
\* fixed positive total_points, and is 0 at every popularity for
\* total_points 0.
C18_ObscurityMonotone ==
    call.op = "obscurity_score" =>
        /\ result[2] > 0
        /\ REq(result, <<TotalOfCall, PopularityOfCall + 1>>)
        /\ \A t \in 0..(TotalOfCall + SongPoints) :
               t > TotalOfCall => RLt(result, Quotient(t, PopularityOfCall))
        /\ \A p \in 0..MaxPopularity :
               /\ Quotient(TotalOfCall, p)[2] > 0
               /\ (p > PopularityOfCall /\ TotalOfCall > 0)
                      => RLt(Quotient(TotalOfCall, p), result)
               /\ TotalOfCall = 0 => REq(Quotient(TotalOfCall, p), RZero)

\* the score of an item with points and a positive popularity was asked for
C18_PopularItemWithPoints ==
    /\ call.op = "obscurity_score"
    /\ TotalOfCall > 0
    /\ PopularityOfCall > 0
    /\ REq(result, <<TotalOfCall, PopularityOfCall + 1>>)

\* the submissions that match a filter, in submission order
Matching(round_id) ==
    SelectSeq(submissions, LAMBDA s : UnderFilter(s.round_id, round_id))

TotalOfSubmission(s) == SumSeq(PointsOn(s.spotify_uri, s.round_id))

\* the place of the k-th submission when the submissions are ordered by
\* total descending and equal totals keep their submission order
StablePlace(subs, k) ==
    1 + Cardinality({j \in 1..Len(subs) :
            \/ TotalOfSubmission(subs[j]) > TotalOfSubmission(subs[k])
            \/ (TotalOfSubmission(subs[j]) = TotalOfSubmission(subs[k]) /\ j < k)})

\* C19: get_all_song_metrics returns one record per submission that matches
\* the filter, also for a submission whose submitter is unknown, each with
\* the sum of the points of the votes on the item in the submission's round
\* as total_points, ordered by total_points descending, submissions of equal
\* total_points in submission order.
C19_OneRecordPerSubmissionInOrder ==
    call.op = "get_all_song_metrics" =>
        LET subs == Matching(call.round_id)
        IN  /\ Len(result) = Len(subs)
            /\ \A k \in 1..Len(subs) :
                   LET row == result[StablePlace(subs, k)]
                   IN  /\ row.spotify_uri = subs[k].spotify_uri
                       /\ row.round_id = subs[k].round_id
                       /\ row.total_points = TotalOfSubmission(subs[k])
                       /\ row.submitter =
                              IF subs[k].submitter_id \in DOMAIN competitors
                              THEN competitors[subs[k].submitter_id]
                              ELSE "Unknown"

-----------------------------------------------------------------------------
(* Properties of the voter similarity matrix (similarity leagues).         *)

\* C20: for any filter, also one that matches no vote, and any non-empty
\* set of n competitors, voter_similarity_matrix returns without raising an
\* n x n symmetric matrix whose diagonal entries are 1.0 and in which a
\* correlation that is not defined is 0.0.
C20_SimilarityMatrixReturned ==
    call.op = "voter_similarity_matrix" =>
        /\ ~IsRaise(result)
        /\ LET n == Cardinality(DOMAIN competitors)
               m == result.returned.values
           IN  /\ Len(m) = n
               /\ \A i \in 1..n :
                      /\ Len(m[i]) = n
                      /\ m[i][i] = CorrOne
                      /\ \A j \in 1..n : m[i][j] # NaN /\ m[i][j] = m[j][i]

-----------------------------------------------------------------------------
(* Properties of golden_ear_score (golden-ear leagues).                    *)

\* the items a voter gave points to under a filter, as (uri, round) pairs
ItemsOfVoter(voter_id, round_id) ==
    {<<votes[k].spotify_uri, votes[k].round_id>> :
        k \in {k \in 1..Len(votes) :
                  /\ votes[k].voter_id = voter_id /\ votes[k].points > 0
                  /\ UnderFilter(votes[k].round_id, round_id)}}

OthersOn(voter_id, item) ==
    {k \in 1..Len(votes) :
        /\ votes[k].spotify_uri = item[1] /\ votes[k].round_id = item[2]
        /\ votes[k].voter_id # voter_id}

\* the items of the voter that another voter voted on, in ascending order
PairedItems(voter_id, round_id) ==
    SortedSongs({item \in ItemsOfVoter(voter_id, round_id) :
                    OthersOn(voter_id, item) # {}})

OwnPoints(voter_id, item) ==
    LET k == CHOOSE k \in 1..Len(votes) :
                 /\ votes[k].voter_id = voter_id /\ votes[k].points > 0
                 /\ votes[k].spotify_uri = item[1] /\ votes[k].round_id = item[2]
    IN  votes[k].points

OtherPoints(voter_id, item) ==
    LET others == SelectSeq(votes, LAMBDA v :
                      /\ v.spotify_uri = item[1] /\ v.round_id = item[2]
                      /\ v.voter_id # voter_id)
    IN  SumSeq([k \in 1..Len(others) |-> others[k].points])

\* 16 - the sum of the squared differences of the doubled places of three
\* pairs: 16 times Spearman's coefficient when no two values are alike
SixteenRho(x, y) ==
    LET place(s, i) == 1 + 2 * Cardinality({j \in 1..3 : s[j] < s[i]})
    IN  16 - SumSeq([i \in 1..3 |->
                        (place(x, i) - place(y, i)) * (place(x, i) - place(y, i))])

NoTwoAlike(s) == \A i, j \in 1..Len(s) : i # j => s[i] # s[j]

\* C21: golden_ear_score never raises and never returns NaN.  It pairs the
\* voter's points on each item the voter gave points to with the sum of the
\* other voters' points on that item in that round and keeps the items that
\* have another voter; with fewer than three pairs, or with an undefined
\* rank correlation, it returns 0.0, else a value in [-1, 1] (for three
\* pairs without ties: Spearman's 1 - 6 * sum d^2 / (n (n^2 - 1))).
C21_GoldenEarDefined ==
    call.op = "golden_ear_score" =>
        LET items == PairedItems(call.voter_id, call.round_id)
            own == [i \in 1..Len(items) |-> OwnPoints(call.voter_id, items[i])]
            other == [i \in 1..Len(items) |-> OtherPoints(call.voter_id, items[i])]
        IN  /\ ~IsRaise(result)
            /\ result # NaN
            /\ result.sign \in {-1, 0, 1}
            /\ result.square[2] > 0
            /\ 0 <= result.square[1] /\ result.square[1] <= result.square[2]
            /\ Len(items) < 3 => result = CorrZero
            /\ (Len(items) >= 3 /\ (\A i \in 1..Len(items) : own[i] = own[1]))
                   => result = CorrZero
            /\ (Len(items) >= 3 /\ (\A i \in 1..Len(items) : other[i] = other[1]))
                   => result = CorrZero
            /\ (Len(items) = 3 /\ NoTwoAlike(own) /\ NoTwoAlike(other)) =>
                   /\ result.sign = Sign(SixteenRho(own, other))
                   /\ REq(result.square,
                          <<SixteenRho(own, other) * SixteenRho(own, other), 256>>)

\* the score of a voter with three paired items and one item of their own
\* that no other voter voted on, where the correlation is defined
C21_ThreePairsOfFour ==
    /\ call.op = "golden_ear_score"
    /\ Cardinality(ItemsOfVoter(call.voter_id, call.round_id)) = 4
    /\ Len(PairedItems(call.voter_id, call.round_id)) = 3
    /\ result.sign = -1

-----------------------------------------------------------------------------
(* Properties of the operations on references that cannot be resolved.     *)

RaisingOps ==
    {"build_voting_graph", "voting_reciprocity", "influence_score",
     "loyalty_index", "biggest_fan_and_nemesis"}

\* every submission has a row of its own, 'Unknown' for an unknown submitter
RowPerSubmission(rows) ==
    /\ Len(rows) = Len(submissions)
    /\ \A k \in 1..Len(submissions) :
           \E i \in 1..Len(rows) :
               /\ rows[i].round_id = submissions[k].round_id
               /\ rows[i].submitter =
                      IF submissions[k].submitter_id \in DOMAIN competitors
                      THEN competitors[submissions[k].submitter_id]
                      ELSE "Unknown"

\* C22: no metric operation raises on a reference that cannot be resolved
\* (a vote of an unknown voter, a vote on an item without a submission, a
\* submission of an unknown submitter): build_voting_graph,
\* voting_reciprocity, influence_score, loyalty_index,
\* biggest_fan_and_nemesis, round_rankings and get_all_song_metrics all
\* complete, and the last two list every submission, under the name
\* 'Unknown' when its submitter is unknown.
C22_NoRaiseOnUnresolvedReference ==
    /\ call.op \in RaisingOps => ~IsRaise(result)
    /\ call.op = "round_rankings" => RowPerSubmission(result)
    /\ call.op = "get_all_song_metrics" => RowPerSubmission(result)

-----------------------------------------------------------------------------
(* Properties of biggest_fan_and_nemesis (network leagues).                *)

\* the votes by others on the items of a submitter under a filter
VotesForSubmitter(submitter_id, round_id) ==
    {k \in 1..Len(votes) :
        /\ votes[k].voter_id # submitter_id
        /\ \E i \in 1..Len(submissions) :
               /\ submissions[i].submitter_id = submitter_id
               /\ UnderFilter(submissions[i].round_id, round_id)
               /\ submissions[i].spotify_uri = votes[k].spotify_uri
               /\ submissions[i].round_id = votes[k].round_id}

VotersFor(submitter_id, round_id) ==
    {votes[k].voter_id : k \in VotesForSubmitter(submitter_id, round_id)}

TotalGiven(voter_id, submitter_id, round_id) ==
    LET given == SelectSeq([k \in 1..Len(votes) |-> k], LAMBDA k :
                     /\ k \in VotesForSubmitter(submitter_id, round_id)
                     /\ votes[k].voter_id = voter_id)
    IN  SumSeq([i \in 1..Len(given) |-> votes[given[i]].points])

NumGiven(voter_id, submitter_id, round_id) ==
    Cardinality({k \in VotesForSubmitter(submitter_id, round_id) :
                    votes[k].voter_id = voter_id})

AvgGiven(voter_id, submitter_id, round_id) ==
    <<TotalGiven(voter_id, submitter_id, round_id),
      NumGiven(voter_id, submitter_id, round_id)>>

\* a record is the record of a voter
RecordOf(record, voter_id, submitter_id, round_id) ==
    /\ voter_id \in DOMAIN competitors
    /\ record.name = competitors[voter_id]
    /\ record.total_points = TotalGiven(voter_id, submitter_id, round_id)
    /\ record.num_votes = NumGiven(voter_id, submitter_id, round_id)
    /\ REq(record.avg_points, AvgGiven(voter_id, submitter_id, round_id))

\* C24: biggest_fan_and_nemesis considers exactly the voters other than the
\* submitter who have a vote on one of the submitter's items: the fan is a
\* voter whose average of points given is the largest of theirs, the nemesis
\* one whose average is the smallest, every record has avg_points =
\* total_points / num_votes, and both results are empty when the submitter
\* has no submission or there is no such voter.
C24_FanAndNemesisOverVoters ==
    call.op = "biggest_fan_and_nemesis" =>
        LET s == call.submitter_id
            f == call.round_id
            voters == VotersFor(s, f)
        IN  /\ ~IsRaise(result)
            /\ voters = {} => result.returned = <<EmptyDict, EmptyDict>>
            /\ voters # {} =>
                   LET fan == result.returned[1]
                       nemesis == result.returned[2]
                   IN  /\ \E v \in voters :
                              /\ RecordOf(fan, v, s, f)
                              /\ \A w \in voters :
                                     ~RLt(AvgGiven(v, s, f), AvgGiven(w, s, f))
                       /\ \E v \in voters :
                              /\ RecordOf(nemesis, v, s, f)
                              /\ \A w \in voters :
                                     ~RLt(AvgGiven(w, s, f), AvgGiven(v, s, f))
                       /\ ~RLt(fan.avg_points, nemesis.avg_points)

-----------------------------------------------------------------------------
(* The dataset under the metric operations.                                *)

\* C23: no metric operation changes the dataset: after any sequence of
\* operations its rounds, competitors, submissions, votes and stored
\* metadata of the items are what they were before the first operation.
C23_DatasetUnchanged ==
    [][/\ rounds' = rounds
       /\ competitors' = competitors
       /\ submissions' = submissions
       /\ votes' = votes
       /\ spotify_data' = spotify_data]_vars

-----------------------------------------------------------------------------
(* Properties of the metadata lookup.                                      *)

\* the service cannot deliver the item: there is no client, or the fetch fails
Unresolved(uri) ==
    \/ ~spotify.client
    \/ uri \notin DOMAIN spotify.tracks
    \/ spotify.tracks[uri] < 0

\* C25: get_spotify_data never raises; for an item that cannot be resolved
\* (no client, or the fetch fails) it returns popularity 0 and placeholder
\* identity fields; the service is asked at most once per item, also after
\* a failed fetch; and a record, once returned, is the record every later
\* lookup of the item returns.
C25_LookupAsksOnce ==
    /\ [](call.op = "get_spotify_data" =>
            /\ call.uri \in DOMAIN spotify_data
            /\ result = spotify_data[call.uri]
            /\ result.uri = call.uri
            /\ result.popularity \in 0..MaxPopularity
            /\ Unresolved(call.uri) =>
                   result = [popularity |-> 0, name |-> "Unknown",
                             uri |-> call.uri]
            /\ ~Unresolved(call.uri) =>
                   result.popularity = spotify.tracks[call.uri])
    /\ [](\A u \in DOMAIN queried : queried[u] <= 1)
    /\ [][\A u \in DOMAIN spotify_data :
              u \in DOMAIN spotify_data' /\ spotify_data'[u] = spotify_data[u]]_vars

\* an item whose fetch failed was looked up, and another item before it
C25_FailedFetchLookedUp ==
    /\ call.op = "get_spotify_data"
    /\ spotify.client
    /\ call.uri \in DOMAIN spotify.tracks
    /\ spotify.tracks[call.uri] < 0
    /\ queried[call.uri] = 1
    /\ result.popularity = 0
    /\ Cardinality(DOMAIN spotify_data) >= 2

(***************************************************************************)
(* Claims on peak_round (trajectory leagues).                              *)
(***************************************************************************)

\* C26: peak_round returns the round whose total is the maximum over the
\* submitter's scored rounds, with round_num the 1-indexed position of that
\* round in the competition's round order and the earliest such round when
\* several tie; with no scored round it returns round_num 0, round_id None
\* and points 0.
C26_PeakIsEarliestMaximum ==
    call.op = "peak_round" =>
        LET s == call.submitter_id
            scored == ScoredRounds(s)
        IN  IF Len(scored) = 0
            THEN result = [round_num |-> 0, round_id |-> None, points |-> 0]
            ELSE /\ result.round_num \in 1..Len(rounds)
                 /\ EntriesIn(s, result.round_num) # {}
                 /\ result.round_id = rounds[result.round_num]
                 /\ result.points = RoundTotal(s, result.round_num)
                 /\ \A q \in 1..Len(scored) :
                        /\ RoundTotal(s, scored[q]) <= result.points
                        /\ scored[q] < result.round_num =>
                               RoundTotal(s, scored[q]) < result.points

\* the peak of a submitter whose maximal total is reached in two rounds, the
\* first of them after a round with a lower total
C26_TiedPeakAfterLowerRound ==
    /\ call.op = "peak_round"
    /\ result.round_num = 2
    /\ EntriesIn(call.submitter_id, 1) # {}
    /\ RoundTotal(call.submitter_id, 1) < result.points
    /\ EntriesIn(call.submitter_id, 3) # {}
    /\ RoundTotal(call.submitter_id, 3) = result.points

(***************************************************************************)
(* Claims on hot_streak_detection (ranking leagues).                       *)
(***************************************************************************)

\* the submissions of a submitter that round_rankings ranks
RankedEntries(s) ==
    {i \in 1..Len(submissions) :
        /\ submissions[i].submitter_id = s
        /\ \E k \in 1..Len(rounds) : rounds[k] = submissions[i].round_id}

\* the entry evaluated last: the greatest round identifier, and the lowest
\* place among the entries of that round
LastEvaluated(s) ==
    CHOOSE i \in RankedEntries(s) :
        \A j \in RankedEntries(s) :
            \/ submissions[j].round_id < submissions[i].round_id
            \/ /\ submissions[j].round_id = submissions[i].round_id
               /\ PlaceOf(j) <= PlaceOf(i)

\* C27: hot_streak_detection returns 0 <= current_streak <= max_streak <=
\* total_top_finishes <= the number of ranked entries of the submitter;
\* current_streak > 0 exactly when the last entry in the evaluated order is
\* a top finish, and all three are 0 for a submitter with no submission.
C27_StreaksOrdered ==
    call.op = "hot_streak_detection" =>
        LET s == call.submitter_id
        IN  /\ 0 <= result.current_streak
            /\ result.current_streak <= result.max_streak
            /\ result.max_streak <= result.total_top_finishes
            /\ result.total_top_finishes <= Cardinality(RankedEntries(s))
            /\ RankedEntries(s) # {} =>
                   (result.current_streak > 0 <=>
                       PlaceOf(LastEvaluated(s)) <= call.top_n)
            /\ ~HasSubmission(s) =>
                   result = [current_streak |-> 0, max_streak |-> 0,
                             total_top_finishes |-> 0]

\* a submitter with three ranked entries: a top finish, a miss, a top finish
C27_StreakBrokenAndResumed ==
    /\ call.op = "hot_streak_detection"
    /\ Cardinality(RankedEntries(call.submitter_id)) = 3
    /\ result.current_streak = 1
    /\ result.max_streak = 1
    /\ result.total_top_finishes = 2

(***************************************************************************)
(* Claims on the symmetry of voting_reciprocity (voting leagues).          *)
(***************************************************************************)

\* the rows of a reciprocity table that mirror row i
MirrorsOf(rows, i) ==
    {j \in 1..Len(rows) :
        /\ rows[j].voter = rows[i].submitter
        /\ rows[j].submitter = rows[i].voter}

\* C28: the table of voting_reciprocity is symmetric: the row of (a, b)
\* comes with a row of (b, a) that has points_given and points_received
\* swapped and the same reciprocity_score; the score lies in [0, 1], is 1
\* exactly when given = received and 0 exactly when one direction is 0.
C28_ReciprocitySymmetric ==
    (call.op = "voting_reciprocity" /\ ~IsRaise(result)) =>
        LET rows == result.returned
        IN  \A i \in 1..Len(rows) :
                LET score == rows[i].reciprocity_score
                IN  /\ Cardinality(MirrorsOf(rows, i)) = 1
                    /\ \A j \in MirrorsOf(rows, i) :
                           /\ rows[j].points_given = rows[i].points_received
                           /\ rows[j].points_received = rows[i].points_given
                           /\ REq(rows[j].reciprocity_score, score)
                    /\ score[2] > 0
                    /\ 0 <= score[1]
                    /\ score[1] <= score[2]
                    /\ score[1] = score[2] <=>
                           rows[i].points_given = rows[i].points_received
                    /\ score[1] = 0 <=>
                           (rows[i].points_given = 0 \/ rows[i].points_received = 0)

\* a table of four rows for two one-way pairs: each pair is listed from the
\* side that gave points and from the side that received them
C28_OneWayPairsListedTwice ==
    /\ call.op = "voting_reciprocity"
    /\ ~IsRaise(result)
    /\ DistinctNames
    /\ Len(result.returned) = 4
    /\ \E i \in 1..4 :
          /\ result.returned[i].points_given = 0
          /\ result.returned[i].points_received > 0

(***************************************************************************)
(* Claims on the number of Headliners (arc leagues).                       *)
(***************************************************************************)

\* the competitors the code counts as active: a positive average
ActivePlayers == {c \in DOMAIN competitors : RLt(RZero, AvgOf(c))}

HeadlinerRows(rows) == {i \in 1..Len(rows) : rows[i].arc_type = Headliner}

\* C29: get_all_player_arcs classifies at most floor(n / 4) of the n active
\* submitters as Headliner, and none when n < 4: a Headliner has at least
\* three quarters of the active submitters (itself counted in the
\* population) strictly below its average.  The bound also holds with n
\* the number of competitors with a submission.
C29_HeadlinersAtMostQuarter ==
    call.op = "get_all_player_arcs" =>
        LET n == Cardinality(ActivePlayers)
            headliners == HeadlinerRows(result)
        IN  /\ 4 * Cardinality(headliners) <= n
            /\ n < 4 => headliners = {}
            /\ 4 * Cardinality(headliners) <= Population
            /\ \A i \in headliners :
                   /\ result[i].submitter_id \in ActivePlayers
                   /\ 4 * Cardinality({t \in ActivePlayers :
                           RLt(AvgOf(t), AvgOf(result[i].submitter_id))}) >= 3 * n

\* a league of four active submitters with one Headliner
C29_OneHeadlinerOfFour ==
    /\ call.op = "get_all_player_arcs"
    /\ Cardinality(ActivePlayers) = 4
    /\ Cardinality(HeadlinerRows(result)) = 1

(***************************************************************************)
(* Claims on the agreement of round_rankings and                           *)
(* cumulative_points_by_round (trajectory and ranking leagues).            *)
(***************************************************************************)

\* the sum of `points` over the rows of a ranking table of one submitter in
\* one round
RowPoints(rows, s, round_id) ==
    SumSeq(MapPoints(SelectSeq(rows,
        LAMBDA row : row.submitter_id = s /\ row.round_id = round_id)))

\* the increase of a cumulative series at position k of data.rounds
Increase(cumulative, k) ==
    cumulative[rounds[k]] - (IF k = 1 THEN 0 ELSE cumulative[rounds[k - 1]])

\* C30: round_rankings and cumulative_points_by_round agree: for every
\* submitter and every round, the sum of `points` over the submitter's rows
\* of round_rankings for the round is the cumulative value at that round
\* minus the value at the previous round (0 before the first round).
C30_RankingsAgreeWithCumulative ==
    /\ call.op = "round_rankings" =>
           \A s \in DOMAIN competitors, k \in 1..Len(rounds) :
               RowPoints(result, s, rounds[k])
                   = Increase(cumulative_points_by_round(s), k)
    /\ call.op = "cumulative_points_by_round" =>
           \A k \in 1..Len(rounds) :
               RowPoints(round_rankings, call.submitter_id, rounds[k])
                   = Increase(result, k)

\* a cumulative series that grows, at a round after the first, by the points
\* of two rows of the rankings
C30_TwoRowsInLaterRound ==
    /\ call.op = "cumulative_points_by_round"
    /\ \E k \in 2..Len(rounds) :
          /\ Cardinality(EntriesIn(call.submitter_id, k)) = 2
          /\ result[rounds[k - 1]] > 0
          /\ Increase(result, k) > 1

====
